---- MODULE Spec2Model ----
(***************************************************************************)
(* The Swap Nursery of boltz-backend (lib/swap/SwapNursery.ts): the        *)
(* event-driven state machine that sequences lockup, payment, claim and    *)
(* refund per swap.  Watchers deliver events; every listener queues its    *)
(* handler on one key of the AsyncLock; the handler at the head of a key's *)
(* queue runs.  A handler body is one step: its external calls (wallet,    *)
(* chain client, Lightning client, contract handler) return or throw, the  *)
(* outcome being chosen nondeterministically.                              *)
(***************************************************************************)
EXTENDS Naturals, Sequences, FiniteSets, TLC

\* ------------------------------------------------------------------ bounds

\* number of watcher events delivered to the nursery in one behaviour
MaxEvents == 3

\* ------------------------------------------------------------------ enums

SwapIds == {"s1", "s2"}

SwapType == {"Submarine", "ReverseSubmarine", "Chain"}

CurrencyType == {"BitcoinLike", "Ether", "ERC20"}

SuccessSwapUpdateEvents == {"InvoiceSettled", "TransactionClaimed"}

FinalChainSwapEvents ==
  {"SwapExpired", "TransactionFailed", "TransactionLockupFailed",
   "TransactionClaimed", "TransactionRefunded"}

swapLock == "swap"
chainSwapLock == "chainSwap"
reverseSwapLock == "reverseSwap"

Locks == {swapLock, chainSwapLock, reverseSwapLock}

\* the preimage the counterparty reveals, and the hash it hashes to
Preimages == {"p1"}
sha256(p) == IF p = "p1" THEN "h1" ELSE "h0"

\* ------------------------------------------------------------------ state

VARIABLES
  retryInterval,  \* seconds between two retry runs, 0 for none (constructor argument)
  swaps,          \* the immutable columns of each swap row
  status,         \* persisted status column
  transactionId,  \* server lockup transaction id is set (reverse: transactionId, chain: sendingData.transactionId)
  rate,           \* submarine: a rate is persisted
  queue,          \* per lock key: the handlers waiting for the lock, in the order they asked
  holder,         \* per lock key: the handlers whose body is running under the lock
  delivered,      \* number of watcher events delivered so far
  log             \* what the nursery received, called and emitted, in order

vars == <<retryInterval, swaps, status, transactionId, rate, queue, holder, delivered, log>>

\* The rows the scenarios start from.
\* minerFeeInvoice is the amount in millisatoshi of the prepay miner fee invoice
\* of a reverse swap, 0 when the swap has none.
SubmarineRows ==
  [type : {"Submarine"}, sendType : {"none"}, recvType : CurrencyType,
   invoice : {"none", "inv1"}, preimageHash : {"h1"}, minerFeeInvoice : {0}]

\* 229000 msat are 229 sat and 1.497 sat/vbyte on 153 vbytes; 229500 msat are
\* 229.5 sat: both roundings of the fee rate go up.
MinerFeeAmounts == {229000, 229500}

\* The prepay miner fee invoice is modelled for the swaps that lock up on a UTXO
\* chain, where its amount sets the fee rate.
ReverseRows ==
  [type : {"ReverseSubmarine"}, sendType : CurrencyType, recvType : {"none"},
   invoice : {"inv1"}, preimageHash : {"h1"}, minerFeeInvoice : {0}]
  \cup [type : {"ReverseSubmarine"}, sendType : {"BitcoinLike"}, recvType : {"none"},
        invoice : {"inv1"}, preimageHash : {"h1"}, minerFeeInvoice : MinerFeeAmounts]

ChainRows ==
  [type : {"Chain"}, sendType : CurrencyType, recvType : CurrencyType,
   invoice : {"none"}, preimageHash : {"h1"}, minerFeeInvoice : {0}]

\* no row with this id
NoRow ==
  [type |-> "none", sendType |-> "none", recvType |-> "none",
   invoice |-> "none", preimageHash |-> "h0", minerFeeInvoice |-> 0]

\* A submarine swap that pays the hold invoice of a reverse swap (inv1) or another
\* invoice with the same payment hash (inv2): its lockup was seen and the payment
\* is in flight.
PayingRows ==
  [type : {"Submarine"}, sendType : {"none"}, recvType : {"BitcoinLike"},
   invoice : {"inv1", "inv2"}, preimageHash : {"h1"}, minerFeeInvoice : {0}]

\* what the nursery did for the paying submarine swap before the scenario starts:
\* one event delivered and handled
PayingLog(s) ==
  << [k |-> "recv", n |-> "swap.lockup", s |-> s, a |-> "true"],
     [k |-> "emit", n |-> "transaction", s |-> s, a |-> "true"],
     [k |-> "call", n |-> "paymentHandler.payInvoice", s |-> s, a |-> "pending"] >>

\* the retry intervals of the configurations: none, and the default of 15 s
RetryIntervals == {0, 15}

\* Either one swap in the tables, just created, or a reverse swap just created
\* next to a submarine swap that is paying an invoice with its payment hash, or
\* two submarine swaps whose payments are in flight.
Init ==
  /\ \/ /\ swaps \in [SwapIds -> SubmarineRows \cup ReverseRows \cup ChainRows \cup {NoRow}]
        /\ swaps["s1"] # NoRow
        /\ swaps["s2"] = NoRow
        /\ status = [s \in SwapIds |-> "SwapCreated"]
        /\ log = <<>>
        /\ delivered = 0
        /\ retryInterval = 15
     \/ /\ swaps \in [SwapIds -> ReverseRows \cup PayingRows]
        /\ swaps["s1"] \in ReverseRows
        /\ swaps["s1"].sendType = "BitcoinLike"
        /\ swaps["s1"].minerFeeInvoice = 0
        /\ swaps["s2"] \in PayingRows
        /\ status = [s \in SwapIds |-> IF s = "s2" THEN "InvoicePending" ELSE "SwapCreated"]
        /\ log = PayingLog("s2")
        /\ delivered = 1
        /\ retryInterval = 15
     \/ /\ swaps \in [SwapIds -> PayingRows]
        /\ swaps["s1"].invoice = "inv1"
        /\ swaps["s2"].invoice = "inv2"
        /\ status = [s \in SwapIds |-> "InvoicePending"]
        /\ log = PayingLog("s1") \o PayingLog("s2")
        /\ delivered = 2
        /\ retryInterval \in RetryIntervals
  /\ transactionId = [s \in SwapIds |-> FALSE]
  /\ rate = [s \in SwapIds |-> FALSE]
  /\ queue = [l \in Locks |-> <<>>]
  /\ holder = [l \in Locks |-> <<>>]

\* ------------------------------------------------------------------ helpers

\* The mutable state a handler body works on; err is set once the body threw.
Cur ==
  [status |-> status, transactionId |-> transactionId, rate |-> rate,
   log |-> log, err |-> FALSE]

Entry(k, n, s, a) == [k |-> k, n |-> n, s |-> s, a |-> a]

emit(st, n, s, a) == [st EXCEPT !.log = Append(@, Entry("emit", n, s, a))]

call(st, n, s, a) == [st EXCEPT !.log = Append(@, Entry("call", n, s, a))]

recv(st, n, s, a) == [st EXCEPT !.log = Append(@, Entry("recv", n, s, a))]

throw(st) == [st EXCEPT !.err = TRUE]

isUtxo(t) == t \in {"BitcoinLike", "Liquid"}

boolStr(b) == IF b THEN "true" ELSE "false"

\* ------------------------------------------------------------------ repositories

\* WrappedSwapRepository.setStatus / SwapRepository.setSwapStatus
setStatus(st, s, v) == [st EXCEPT !.status[s] = v]

\* WrappedSwapRepository.setServerLockupTransaction
setServerLockupTransaction(st, s) ==
  [st EXCEPT !.log = Append(@, [k |-> "call", n |-> "setServerLockupTransaction",
                                s |-> s, a |-> ""]),
             !.transactionId[s] = TRUE,
             !.status[s] = IF swaps[s].type = "ReverseSubmarine"
                           THEN "TransactionMempool"
                           ELSE "TransactionServerMempool"]

\* WrappedSwapRepository.setTransactionRefunded
setTransactionRefunded(st, s) == setStatus(st, s, "TransactionRefunded")

\* ReverseSwapRepository.setInvoiceSettled
setInvoiceSettled(st, s) == setStatus(st, s, "InvoiceSettled")

\* SwapRepository.setMinerFee
setMinerFee(st, s) == setStatus(st, s, "TransactionClaimed")

\* ChainSwapRepository.setClaimMinerFee
setClaimMinerFee(st, s) == setStatus(st, s, "TransactionClaimed")

\* SwapRepository.setRate
setRate(st, s) ==
  [st EXCEPT !.rate[s] = TRUE,
             !.log = @ \o << [k |-> "call", n |-> "SwapRepository.setRate", s |-> s, a |-> ""] >>]

\* ------------------------------------------------------------------ outcomes of external calls

SendOutcomes == {"ok", "throw"}
\* the steps between the send and the persisting of the lockup transaction (the
\* filters of the chain client, the contract transaction listener), inside the
\* same try block as the send
PostOutcomes == {"ok", "throw"}
CancelOutcomes == {"ok", "throw"}
RefundOutcomes == {"ok", "fetchThrow", "broadcastThrow"}

\* what chainClient.estimateFee answers, in sat/vbyte: a rate that no prepay
\* amount of the rows gives
FeeEstimates == {7}

NoOutcome ==
  [send |-> "ok", post |-> "ok", cancel |-> "ok", refund |-> "ok",
   pay |-> "paid", defer |-> FALSE, claim |-> "ok", settle |-> "ok",
   lookup |-> "open", fee |-> 7]

\* ------------------------------------------------------------------ server lockup

\* LightningNursery.cancelReverseInvoices(lightningClient, reverseSwap, flag)
cancelReverseInvoices(st, s, flag, outcome) ==
  LET st1 == call(st, "cancelReverseInvoices", s, boolStr(flag))
  IN  IF outcome = "ok" THEN st1 ELSE throw(st1)
\* handleSwapSendFailed cancelling the hold invoices with the send-failure flag
\* set (used against C10)
handleSwapSendFailed_flagSet(st, s, oc, lightningClient) ==
  LET st1 == IF lightningClient
             THEN cancelReverseInvoices(st, s, TRUE, oc.cancel)
             ELSE st
  IN  IF st1.err
      THEN st1
      ELSE emit(setStatus(st1, s, "TransactionFailed"), "coins.failedToSend", s, "")

handleSwapSendFailed(st, s, oc, lightningClient) ==
  LET st1 == IF lightningClient
             THEN cancelReverseInvoices(st, s, FALSE, oc.cancel)
             ELSE st
  IN  IF st1.err
      THEN st1
      ELSE emit(setStatus(st1, s, "TransactionFailed"), "coins.failedToSend", s, "")

\* the lockup reporting coins.sent before the filters are installed and the
\* lockup transaction is persisted (used against C31)
lockupVia_emitsFirst(st, s, oc, lightningClient, sendCall, postCalls) ==
  LET st1 == call(st, sendCall, s, oc.send)
  IN  IF oc.send # "ok"
      THEN handleSwapSendFailed(st1, s, oc, lightningClient)
      ELSE LET st2 == emit(st1, "coins.sent", s, "")
           IN  IF oc.post # "ok"
               THEN handleSwapSendFailed(call(st2, postCalls, s, "throw"), s, oc,
                                         lightningClient)
               ELSE setServerLockupTransaction(call(st2, postCalls, s, "ok"), s)
\* The body shared by lockupUtxo, lockupEther and lockupERC20: try { send; the
\* steps after the send; persist; emit } catch { handleSwapSendFailed }.
lockupVia(st, s, oc, lightningClient, sendCall, postCalls) ==
  LET st1 == call(st, sendCall, s, oc.send)
  IN  IF oc.send # "ok"
      THEN handleSwapSendFailed(st1, s, oc, lightningClient)
      ELSE IF oc.post # "ok"
           THEN handleSwapSendFailed(call(st1, postCalls, s, "throw"), s, oc, lightningClient)
           ELSE emit(setServerLockupTransaction(call(st1, postCalls, s, "ok"), s),
                     "coins.sent", s, "")

reverseSwapMempoolEta == 2

\* FeeProvider.transactionSizes[BitcoinLike][Legacy].reverseLockup, in vbytes
reverseLockupSize == 153

\* Math.round of the quotient of two positive integers: halves go up
RoundDiv(a, b) == (2 * a + b) \div (2 * b)

msatToSat(msat) == RoundDiv(msat, 1000)

\* feePerVbyte rounding the rate of the prepay miner fee up (used against C17)
feePerVbyte_roundsUp(st, s, oc) ==
  IF swaps[s].type = "ReverseSubmarine" /\ swaps[s].minerFeeInvoice # 0
  THEN LET minerFeeAmountSat == msatToSat(swaps[s].minerFeeInvoice)
       IN  call(call(st, "sidecar.decodeInvoiceOrOffer", s, ToString(swaps[s].minerFeeInvoice)),
                "wallet.feePerVbyte", s,
                ToString((minerFeeAmountSat + reverseLockupSize - 1) \div reverseLockupSize))
  ELSE call(call(st, "chainClient.estimateFee", s, ToString(reverseSwapMempoolEta)),
            "wallet.feePerVbyte", s, ToString(oc.fee))

\* The fee rate of the server lockup of a UTXO chain: from the prepay miner fee
\* invoice of a reverse swap, from the estimate of the chain client otherwise.
\* The rate handed to the wallet is logged as the call wallet.feePerVbyte.
feePerVbyte(st, s, oc) ==
  IF swaps[s].type = "ReverseSubmarine" /\ swaps[s].minerFeeInvoice # 0
  THEN LET minerFeeAmountSat == msatToSat(swaps[s].minerFeeInvoice)
       IN  call(call(st, "sidecar.decodeInvoiceOrOffer", s, ToString(swaps[s].minerFeeInvoice)),
                "wallet.feePerVbyte", s,
                ToString(RoundDiv(minerFeeAmountSat, reverseLockupSize)))
  ELSE call(call(st, "chainClient.estimateFee", s, ToString(reverseSwapMempoolEta)),
            "wallet.feePerVbyte", s, ToString(oc.fee))

lockupUtxo(st, s, oc, lightningClient) ==
  lockupVia(feePerVbyte(st, s, oc), s, oc, lightningClient, "sendToAddress", "addFilters")

lockupEther(st, s, oc, lightningClient) ==
  lockupVia(st, s, oc, lightningClient, "lockupEther", "listenContractTransaction")

lockupERC20(st, s, oc, lightningClient) ==
  lockupVia(st, s, oc, lightningClient, "lockupToken", "listenContractTransaction")

handleChainSwapLockup(st, s, oc) ==
  IF isUtxo(swaps[s].sendType)
  THEN LET st1 == lockupUtxo(st, s, oc, FALSE)
       IN  IF st1.err THEN st1 ELSE call(st1, "registerForClaim", s, "")
  ELSE IF swaps[s].sendType = "Ether"
       THEN lockupEther(st, s, oc, FALSE)
       ELSE lockupERC20(st, s, oc, FALSE)

\* ------------------------------------------------------------------ refunds
\* handleFailedRefund marking the swap as failed (used against C11)
handleFailedRefund_marksFailed(st, s) ==
  setStatus(call(st, "notifications.sendMessage", s, "refund failed"), s, "TransactionFailed")

handleFailedRefund(st, s) == call(st, "notifications.sendMessage", s, "refund failed")

\* the timeout block heights of the two sides of a swap; a reverse swap has
\* one, the chain of a chain swap the server locks on times out first
timeoutBlockHeight(s, side) ==
  LET base == IF s = "s1" THEN 840 ELSE 850
  IN  IF side = "sending" \/ swaps[s].type # "Chain" THEN base ELSE base + 5

\* refundUtxo broadcasting before it records the refund transaction (used
\* against C30)
refundUtxo_broadcastsFirst(st, s, oc) ==
  LET st1 == call(st, "refundUtxo", s, oc.refund)
  IN  IF oc.refund = "fetchThrow"
      THEN throw(st1)
      ELSE LET st2 == call(st1, "constructRefundTransaction", s,
                           ToString(timeoutBlockHeight(s, "sending")))
           IN  IF oc.refund = "broadcastThrow"
               THEN throw(call(st2, "refund.sendRawTransaction", s, "throw"))
               ELSE emit(setTransactionRefunded(
                           call(call(st2, "refund.sendRawTransaction", s, "ok"),
                                "RefundTransactionRepository.addTransaction", s, "0"), s),
                         "refund", s, "")

\* the lockup transaction is fetched; the refund transaction is built with the
\* timeout of the sending side as its locktime, recorded, broadcast, reported
refundUtxo(st, s, oc) ==
  LET st1 == call(st, "refundUtxo", s, oc.refund)
  IN  IF oc.refund = "fetchThrow"
      THEN throw(st1)
      ELSE LET st2 == call(call(st1, "constructRefundTransaction", s,
                                ToString(timeoutBlockHeight(s, "sending"))),
                           "RefundTransactionRepository.addTransaction", s, "0")
           IN  IF oc.refund = "broadcastThrow"
               THEN throw(call(st2, "refund.sendRawTransaction", s, "throw"))
               ELSE emit(setTransactionRefunded(call(st2, "refund.sendRawTransaction", s, "ok"), s),
                         "refund", s, "")

\* refundEther and refundERC20: query the lockup values, call the contract,
\* persist the refund row, emit.
refundVia(st, s, oc, name, contractCall) ==
  LET st1 == call(st, name, s, oc.refund)
  IN  IF oc.refund = "fetchThrow"
      THEN throw(st1)
      ELSE IF oc.refund = "broadcastThrow"
           THEN throw(call(st1, contractCall, s, "throw"))
           ELSE emit(setTransactionRefunded(
                       call(call(st1, contractCall, s, "ok"),
                            "RefundTransactionRepository.addTransaction", s, "null"), s),
                     "refund", s, "")

refundEther(st, s, oc) == refundVia(st, s, oc, "refundEther", "contractHandler.refundEther")

refundERC20(st, s, oc) == refundVia(st, s, oc, "refundERC20", "contractHandler.refundToken")

\* try { ... } catch (e) { handleFailedRefund } of the two expire functions
catchFailedRefund(st, s) ==
  IF st.err THEN handleFailedRefund([st EXCEPT !.err = FALSE], s) ELSE st

\* ------------------------------------------------------------------ expiry
\* expireSwap without the re-read of the status (used against C12)
expireSwap_noReread(st, s) ==
  emit(setStatus(st, s, "SwapExpired"), "expiration", s, "")

expireSwap(st, s) ==
  IF st.status[s] = "SwapExpired"
  THEN st
  ELSE emit(setStatus(st, s, "SwapExpired"), "expiration", s, "")
\* expireReverseSwap refunding without looking at the lockup transaction id
\* (used against C4)
expireReverseSwap_refundAlways(st, s, snapTx, oc) ==
  IF st.status[s] \in {"SwapExpired", "TransactionRefunded"}
  THEN st
  ELSE catchFailedRefund(
         IF isUtxo(swaps[s].sendType) THEN refundUtxo(st, s, oc)
         ELSE IF swaps[s].sendType = "Ether" THEN refundEther(st, s, oc)
         ELSE refundERC20(st, s, oc),
         s)

\* reverseSwap is the row the event carries: snapTx is its transactionId
expireReverseSwap(st, s, snapTx, oc) ==
  IF st.status[s] \in {"SwapExpired", "TransactionRefunded"}
  THEN st
  ELSE catchFailedRefund(
         IF snapTx
         THEN IF isUtxo(swaps[s].sendType) THEN refundUtxo(st, s, oc)
              ELSE IF swaps[s].sendType = "Ether" THEN refundEther(st, s, oc)
              ELSE refundERC20(st, s, oc)
         ELSE emit(setStatus(st, s, "SwapExpired"), "expiration", s, ""),
         s)

\* expireChainSwap refunding before it takes the swap from the claimable set
\* (used against C38)
expireChainSwap_refundFirst(st, s, oc) ==
  IF st.status[s] \in FinalChainSwapEvents
  THEN st
  ELSE catchFailedRefund(
         IF st.transactionId[s]
         THEN IF isUtxo(swaps[s].sendType)
              THEN LET st1 == refundUtxo(st, s, oc)
                   IN  IF st1.err THEN st1 ELSE call(st1, "removeFromClaimable", s, "")
              ELSE IF swaps[s].sendType = "Ether" THEN refundEther(st, s, oc)
              ELSE refundERC20(st, s, oc)
         ELSE emit(setStatus(st, s, "SwapExpired"), "expiration", s, ""),
         s)
expireChainSwap(st, s, oc) ==
  IF st.status[s] \in FinalChainSwapEvents
  THEN st
  ELSE catchFailedRefund(
         IF st.transactionId[s]
         THEN IF isUtxo(swaps[s].sendType)
              THEN refundUtxo(call(st, "removeFromClaimable", s, ""), s, oc)
              ELSE IF swaps[s].sendType = "Ether" THEN refundEther(st, s, oc)
              ELSE refundERC20(st, s, oc)
         ELSE emit(setStatus(st, s, "SwapExpired"), "expiration", s, ""),
         s)

\* lockupFailed after its read of the swap: loadedStatus and loadedTxId are what
\* getSwap / getChainSwap returned
lockupFailedOf(st, s, loadedStatus, loadedTxId) ==
  IF swaps[s].type = "Submarine" /\ loadedStatus = "InvoicePending"
  THEN st
  ELSE IF swaps[s].type = "Chain" /\ loadedTxId
       THEN st
       ELSE emit(setStatus(st, s, "TransactionLockupFailed"), "lockup.failed", s, "")

\* the read and the write in one piece: nothing that writes the swap runs in
\* between when the caller holds the lock of the swap's kind
lockupFailed(st, s) == lockupFailedOf(st, s, st.status[s], st.transactionId[s])

\* ------------------------------------------------------------------ status progression (section 3 of the specification)

Rank(type, v) ==
  IF type = "Submarine" THEN
    CASE v = "SwapCreated" -> 0
      [] v \in {"TransactionMempool", "TransactionZeroConfRejected"} -> 1
      [] v = "TransactionConfirmed" -> 2
      [] v = "InvoicePending" -> 3
      [] v = "InvoicePaid" -> 4
      [] v = "TransactionClaimPending" -> 5
      [] v = "TransactionClaimed" -> 6
      [] OTHER -> 9
  ELSE IF type = "ReverseSubmarine" THEN
    CASE v = "SwapCreated" -> 0
      [] v = "MinerFeePaid" -> 1
      [] v = "TransactionMempool" -> 2
      [] v = "TransactionConfirmed" -> 3
      [] v = "InvoiceSettled" -> 4
      [] OTHER -> 9
  ELSE
    CASE v = "SwapCreated" -> 0
      [] v \in {"TransactionMempool", "TransactionZeroConfRejected"} -> 1
      [] v = "TransactionConfirmed" -> 2
      [] v = "TransactionServerMempool" -> 3
      [] v = "TransactionServerConfirmed" -> 4
      [] v = "TransactionClaimPending" -> 5
      [] v = "TransactionClaimed" -> 6
      [] OTHER -> 9

\* A collaborator outside the nursery persisting a transition of the progression
advanceStatus(st, s, v) ==
  IF Rank(swaps[s].type, st.status[s]) < Rank(swaps[s].type, v)
  THEN setStatus(st, s, v)
  ELSE st

\* ------------------------------------------------------------------ payment and claim

PayOutcomes == {"paid", "pending", "throw"}
ClaimOutcomes == {"ok", "throw"}
\* raceCall rejects with "timed out" when the Lightning client does not answer
SettleOutcomes == {"ok", "throw", "timeout"}

\* PaymentHandler.payInvoice: a preimage, undefined while the payment is in
\* flight, or a permanent failure
paymentHandlerPayInvoice(st, s, outcome) ==
  LET st1 == call(st, "paymentHandler.payInvoice", s, outcome)
  IN  IF outcome = "paid" THEN advanceStatus(st1, s, "InvoicePaid")
      ELSE IF outcome = "pending" THEN advanceStatus(st1, s, "InvoicePending")
      ELSE throw(st1)
\* payInvoice reporting a preimage whatever the payment handler returned (used
\* against C6)
payInvoice_alwaysPreimage(st, s, oc) ==
  [st |-> paymentHandlerPayInvoice(st, s, oc.pay),
   res |-> "preimage"]

\* the result is "preimage" / "undefined" in res; the state in st
payInvoice(st, s, oc) ==
  [st |-> paymentHandlerPayInvoice(st, s, oc.pay),
   res |-> IF oc.pay = "paid" THEN "preimage" ELSE "undefined"]

\* DeferredClaimer.deferClaim
deferClaim(st, s, accepted) ==
  LET st1 == call(st, "deferClaim", s, boolStr(accepted))
  IN  IF accepted THEN advanceStatus(st1, s, "TransactionClaimPending") ELSE st1

setClaimed(st, s) ==
  IF swaps[s].type = "Submarine" THEN setMinerFee(st, s) ELSE setClaimMinerFee(st, s)

claimUtxo(st, s, oc) ==
  LET st1 == deferClaim(st, s, oc.defer)
  IN  IF oc.defer
      THEN emit(st1, "claim.pending", s, "")
      ELSE IF oc.claim # "ok"
           THEN throw(call(st1, "claim.sendRawTransaction", s, "throw"))
           ELSE emit(setClaimed(call(st1, "claim.sendRawTransaction", s, "ok"), s),
                     "claim", s, "")

claimEther(st, s, oc) ==
  IF oc.claim # "ok"
  THEN throw(call(st, "contractHandler.claimEther", s, "throw"))
  ELSE emit(setClaimed(call(st, "contractHandler.claimEther", s, "ok"), s), "claim", s, "")

claimERC20(st, s, oc) ==
  IF oc.claim # "ok"
  THEN throw(call(st, "contractHandler.claimToken", s, "throw"))
  ELSE emit(setClaimed(call(st, "contractHandler.claimToken", s, "ok"), s), "claim", s, "")
\* attemptSettleSwap going on to the claim after the claimer accepted it (used
\* against C16)
attemptSettleSwap_ignoresDeferral(st, s, currencyType, oc) ==
  LET paid == IF swaps[s].type = "Submarine"
              THEN payInvoice(st, s, oc)
              ELSE [st |-> st, res |-> "preimage"]
  IN  IF paid.st.err \/ paid.res = "undefined"
      THEN paid.st
      ELSE LET st1 == deferClaim(paid.st, s, oc.defer)
               st2 == IF oc.defer THEN emit(st1, "claim.pending", s, "") ELSE st1
               after == [oc EXCEPT !.defer = FALSE]
           IN  IF isUtxo(currencyType)
               THEN claimUtxo(call(st2, "getRawTransaction", s, "lockup"), s, after)
               ELSE IF currencyType = "Ether"
                    THEN claimEther(st2, s, after)
                    ELSE claimERC20(st2, s, after)

\* currencyType is the type of the currency argument
attemptSettleSwap(st, s, currencyType, oc) ==
  LET paid == IF swaps[s].type = "Submarine"
              THEN payInvoice(st, s, oc)
              ELSE [st |-> st, res |-> "preimage"]
  IN  IF paid.st.err \/ paid.res = "undefined"
      THEN paid.st
      ELSE LET st1 == deferClaim(paid.st, s, oc.defer)
           IN  IF oc.defer
               THEN emit(st1, "claim.pending", s, "")
               ELSE IF isUtxo(currencyType)
                    THEN claimUtxo(call(st1, "getRawTransaction", s, "lockup"), s, oc)
                    ELSE IF currencyType = "Ether"
                         THEN claimEther(st1, s, oc)
                         ELSE claimERC20(st1, s, oc)

\* SwapRepository.getSwap({preimageHash, status in [...]}) of settleReverseSwapInvoice
submarineOf(st, s) ==
  {t \in SwapIds :
     /\ swaps[t].type = "Submarine"
     /\ swaps[t].preimageHash = swaps[s].preimageHash
     /\ st.status[t] \in {"InvoicePending", "InvoicePaid",
                          "TransactionClaimPending", "TransactionClaimed"}}

\* LightningClient.settleHoldInvoice refuses a preimage that is not the invoice's
settleHoldInvoice(st, s, preimage, outcome) ==
  LET ok == outcome = "ok" /\ sha256(preimage) = swaps[s].preimageHash
      st1 == call(st, "settleHoldInvoice", s,
                  IF ok THEN "ok" ELSE IF outcome = "timeout" THEN "timeout" ELSE "throw")
  IN  IF ok THEN st1 ELSE throw(st1)
\* settleReverseSwapInvoice not comparing the invoices of the two swaps (used
\* against C15)
settleReverseSwapInvoice_anyInvoice(st, s, preimage, oc) ==
  LET cyclic == submarineOf(st, s) # {}
      st1 == IF cyclic
             THEN [cancelReverseInvoices(st, s, TRUE, oc.cancel) EXCEPT !.err = FALSE]
             ELSE settleHoldInvoice(st, s, preimage, oc.settle)
  IN  IF st1.err
      THEN call([st1 EXCEPT !.err = FALSE], "notifications.sendMessage", s, "settle failed")
      ELSE emit(setInvoiceSettled(st1, s), "invoice.settled", s, preimage)

\* settleReverseSwapInvoice marking the invoice as settled although the call of
\* the Lightning client failed (used against C24)
settleReverseSwapInvoice_ignoresFailure(st, s, preimage, oc) ==
  LET cyclic == \E t \in submarineOf(st, s) : swaps[t].invoice = swaps[s].invoice
      st1 == IF cyclic
             THEN [cancelReverseInvoices(st, s, TRUE, oc.cancel) EXCEPT !.err = FALSE]
             ELSE settleHoldInvoice(st, s, preimage, oc.settle)
  IN  emit(setInvoiceSettled([st1 EXCEPT !.err = FALSE], s), "invoice.settled", s, preimage)
settleReverseSwapInvoice(st, s, preimage, oc) ==
  LET cyclic == \E t \in submarineOf(st, s) : swaps[t].invoice = swaps[s].invoice
      st1 == IF cyclic
             THEN [cancelReverseInvoices(st, s, TRUE, oc.cancel) EXCEPT !.err = FALSE]
             ELSE settleHoldInvoice(st, s, preimage, oc.settle)
  IN  IF st1.err
      THEN call([st1 EXCEPT !.err = FALSE], "notifications.sendMessage", s, "settle failed")
      ELSE emit(setInvoiceSettled(st1, s), "invoice.settled", s, preimage)

\* swap.rate is read from the row the event carries
setSwapRate(st, s, snapRate) ==
  IF ~snapRate THEN setRate(st, s) ELSE st

\* ------------------------------------------------------------------ watchers

Ev(h, src, s) ==
  [h |-> h, src |-> src, s |-> s, confirmed |-> FALSE, snapTx |-> FALSE,
   snapRate |-> FALSE, concurrent |-> FALSE, preimage |-> "none", loaded |-> "none"]

LogHas(k, n, s, a) == \E i \in 1..Len(log) : log[i] = Entry(k, n, s, a)

\* a server lockup transaction of the swap was handed to the network
lockupBroadcast(s) ==
  \E n \in {"sendToAddress", "lockupEther", "lockupToken"} : LogHas("call", n, s, "ok")

\* a refund transaction of the swap was handed to the network
refundBroadcast(s) ==
  \E n \in {"refund.sendRawTransaction", "contractHandler.refundEther",
            "contractHandler.refundToken"} : LogHas("call", n, s, "ok")

\* the preimages a claim of the server lockup can reveal
claimPreimages(s) == {p \in Preimages : sha256(p) = swaps[s].preimageHash}

pendingFor(lock, h, s) ==
  LET asked == holder[lock] \o queue[lock]
  IN  \E i \in 1..Len(asked) : asked[i].h = h /\ asked[i].s = s

UtxoNurseryEvents(s) ==
  LET r == swaps[s]
  IN  (IF r.type = "Submarine" /\ isUtxo(r.recvType)
       THEN {Ev("swap.expired", "utxo", s), Ev("swap.lockup.failed", "utxo", s),
             [Ev("swap.lockup.zeroconf.rejected", "utxo", s) EXCEPT !.snapRate = rate[s]]}
            \cup {[Ev("swap.lockup", "utxo", s) EXCEPT !.confirmed = c, !.snapRate = rate[s]]
                  : c \in BOOLEAN}
       ELSE {})
      \cup
      (IF r.type = "ReverseSubmarine" /\ isUtxo(r.sendType)
       THEN {[Ev("reverseSwap.expired", "utxo", s) EXCEPT !.snapTx = transactionId[s]]}
            \cup (IF lockupBroadcast(s)
                  THEN {Ev("server.lockup.confirmed", "utxo", s)}
                       \cup {[Ev("reverseSwap.claimed", "utxo", s) EXCEPT !.preimage = p]
                             : p \in claimPreimages(s)}
                  ELSE {})
       ELSE {})
      \cup
      (IF r.type = "Chain" /\ isUtxo(r.recvType)
       THEN {Ev("chainSwap.lockup.zeroconf.rejected", "utxo", s),
             Ev("chainSwap.lockup.failed", "utxo", s)}
            \cup {[Ev("chainSwap.lockup", "utxo", s)
                     EXCEPT !.confirmed = c,
                            !.concurrent = pendingFor(chainSwapLock, "chainSwap.lockup", s)]
                  : c \in BOOLEAN}
       ELSE {})
      \cup
      (IF r.type = "Chain" /\ isUtxo(r.sendType)
       THEN {Ev("chainSwap.expired", "utxo", s)}
            \cup (IF lockupBroadcast(s)
                  THEN {Ev("server.lockup.confirmed", "utxo", s)}
                       \cup {[Ev("chainSwap.claimed", "utxo", s) EXCEPT !.preimage = p]
                             : p \in claimPreimages(s)}
                  ELSE {})
       ELSE {})

EthereumNurseryEvents(s) ==
  LET r == swaps[s]
      lockupName(ct) == IF ct = "Ether" THEN "eth.lockup" ELSE "erc20.lockup"
  IN  (IF r.type = "Submarine" /\ ~isUtxo(r.recvType)
       THEN {Ev("swap.expired", "evm", s), Ev("lockup.failed", "evm", s),
             [Ev(lockupName(r.recvType), "evm", s) EXCEPT !.snapRate = rate[s]]}
       ELSE {})
      \cup
      (IF r.type = "ReverseSubmarine" /\ ~isUtxo(r.sendType)
       THEN {[Ev("reverseSwap.expired", "evm", s) EXCEPT !.snapTx = transactionId[s]]}
            \cup (IF lockupBroadcast(s)
                  THEN {Ev("lockup.failedToSend", "evm", s), Ev("lockup.confirmed", "evm", s)}
                       \cup {[Ev("claim", "evm", s) EXCEPT !.preimage = p]
                             : p \in claimPreimages(s)}
                  ELSE {})
       ELSE {})
      \cup
      (IF r.type = "Chain" /\ ~isUtxo(r.recvType)
       THEN {Ev("lockup.failed", "evm", s), Ev(lockupName(r.recvType), "evm", s)}
       ELSE {})
      \cup
      (IF r.type = "Chain" /\ ~isUtxo(r.sendType)
       THEN {Ev("chainSwap.expired", "evm", s)}
            \cup (IF lockupBroadcast(s)
                  THEN {Ev("lockup.failedToSend", "evm", s), Ev("lockup.confirmed", "evm", s)}
                       \cup {[Ev("claim", "evm", s) EXCEPT !.preimage = p]
                             : p \in claimPreimages(s)}
                  ELSE {})
       ELSE {})

LightningNurseryEvents(s) ==
  IF swaps[s].type = "ReverseSubmarine"
  THEN {Ev("invoice.paid", "ln", s)}
       \cup (IF swaps[s].minerFeeInvoice # 0
             THEN {Ev("minerfee.invoice.paid", "ln", s)}
             ELSE {})
  ELSE {}

InvoiceNurseryEvents(s) ==
  IF swaps[s].type = "ReverseSubmarine" THEN {Ev("invoice.expired", "invoice", s)} ELSE {}

RefundWatcherEvents(s) ==
  IF swaps[s].type # "Submarine" /\ refundBroadcast(s)
  THEN {Ev("refund.confirmed", "refund", s)}
  ELSE {}

\* the key of this.lock.acquire(...) in the listener of the event
LockOf(e) ==
  LET type == swaps[e.s].type
      byType == IF type = "ReverseSubmarine" THEN reverseSwapLock ELSE chainSwapLock
  IN  CASE e.h \in {"swap.expired", "swap.lockup.failed", "swap.lockup.zeroconf.rejected",
                    "swap.lockup", "lockup.failed",
                    "chainSwap.lockup.zeroconf.rejected"} -> swapLock
        [] e.h \in {"eth.lockup", "erc20.lockup"} ->
             IF type = "Submarine" THEN swapLock ELSE chainSwapLock
        [] e.h \in {"reverseSwap.expired", "minerfee.invoice.paid", "invoice.paid",
                    "reverseSwap.claimed", "invoice.expired", "refund.confirmed"} ->
             reverseSwapLock
        [] e.h \in {"server.lockup.confirmed", "lockup.failedToSend",
                    "lockup.confirmed", "claim"} -> byType
        [] OTHER -> chainSwapLock

\* AsyncLock.acquire(key, fn): fn starts at once when nobody holds or waits for
\* the key, otherwise the request joins the key's queue
acquire(key, e) ==
  IF holder[key] = <<>> /\ queue[key] = <<>>
  THEN /\ holder' = [holder EXCEPT ![key] = <<e>>]
       /\ queue' = queue
  ELSE /\ queue' = [queue EXCEPT ![key] = Append(@, e)]
       /\ holder' = holder

\* AsyncLock: fn settled; the key passes to the request that waited longest
release(key) ==
  IF queue[key] = <<>>
  THEN /\ holder' = [holder EXCEPT ![key] = Tail(@)]
       /\ queue' = queue
  ELSE /\ holder' = [holder EXCEPT ![key] = Append(Tail(@), Head(queue[key]))]
       /\ queue' = [queue EXCEPT ![key] = Tail(@)]

\* the listener calls this.lock.acquire with the key of its event
Deliver(e) ==
  /\ delivered < MaxEvents
  /\ delivered' = delivered + 1
  /\ acquire(LockOf(e), e)

UtxoNurseryEmit ==
  \E s \in SwapIds : \E e \in UtxoNurseryEvents(s) :
    /\ Deliver(e)
    /\ UNCHANGED <<retryInterval, swaps, status, transactionId, rate, log>>

EthereumNurseryEmit ==
  \E s \in SwapIds : \E e \in EthereumNurseryEvents(s) :
    /\ Deliver(e)
    /\ UNCHANGED <<retryInterval, swaps, status, transactionId, rate, log>>

\* the Lightning watcher records the accepted prepay invoice before it reports it
LightningNurseryEmit ==
  \E s \in SwapIds : \E e \in LightningNurseryEvents(s) :
    /\ Deliver(e)
    /\ status' = IF e.h = "minerfee.invoice.paid" /\ status[s] = "SwapCreated"
                 THEN [status EXCEPT ![s] = "MinerFeePaid"]
                 ELSE status
    /\ UNCHANGED <<retryInterval, swaps, transactionId, rate, log>>

InvoiceNurseryEmit ==
  \E s \in SwapIds : \E e \in InvoiceNurseryEvents(s) :
    /\ Deliver(e)
    /\ UNCHANGED <<retryInterval, swaps, status, transactionId, rate, log>>

\* refund.confirmed of a swap that is no reverse swap returns before the lock
RefundWatcherEmit ==
  \E s \in SwapIds : \E e \in RefundWatcherEvents(s) :
    /\ delivered < MaxEvents
    /\ delivered' = delivered + 1
    /\ IF swaps[s].type = "ReverseSubmarine"
       THEN /\ acquire(reverseSwapLock, e)
            /\ log' = log
       ELSE /\ UNCHANGED <<queue, holder>>
            /\ log' = Append(log, Entry("recv", "refund.confirmed", s, "ignored"))
    /\ UNCHANGED <<retryInterval, swaps, status, transactionId, rate>>

\* ------------------------------------------------------------------ handlers

\* the handler of event h from watcher src holds the lock
Running(lock, h, src) ==
  /\ holder[lock] # <<>>
  /\ Head(holder[lock]).h = h
  /\ Head(holder[lock]).src = src

\* Done keeping the key with the body that threw (used against C21)
Done_keepsLockOnThrow(lock, r) ==
  /\ status' = r.status
  /\ transactionId' = r.transactionId
  /\ rate' = r.rate
  /\ log' = IF r.err
            THEN Append(r.log, Entry("reject", Head(holder[lock]).h, Head(holder[lock]).s, ""))
            ELSE r.log
  /\ IF r.err
     THEN /\ holder' = [holder EXCEPT ![lock] = <<[Head(@) EXCEPT !.src = "rejected"]>>]
          /\ queue' = queue
     ELSE release(lock)
  /\ UNCHANGED <<retryInterval, swaps, delivered>>
\* Done of a body that asks for its own key again before it returns (used
\* against C39)
Done_asksAgain(lock, r) ==
  /\ status' = r.status
  /\ transactionId' = r.transactionId
  /\ rate' = r.rate
  /\ log' = IF r.err
            THEN Append(r.log, Entry("reject", Head(holder[lock]).h, Head(holder[lock]).s, ""))
            ELSE r.log
  /\ holder' = holder
  /\ queue' = [queue EXCEPT ![lock] = Append(@, Head(holder[lock]))]
  /\ UNCHANGED <<retryInterval, swaps, delivered>>
\* the handler body returned (or threw: the listener's promise rejects) and the
\* lock is released
Done(lock, r) ==
  /\ status' = r.status
  /\ transactionId' = r.transactionId
  /\ rate' = r.rate
  /\ log' = IF r.err
            THEN Append(r.log, Entry("reject", Head(holder[lock]).h, Head(holder[lock]).s, ""))
            ELSE r.log
  /\ release(lock)
  /\ UNCHANGED <<retryInterval, swaps, delivered>>

Begin(e, a) == recv(Cur, e.h, e.s, a)

onSwapExpired ==
  /\ Running(swapLock, "swap.expired", "utxo")
  /\ LET e == Head(holder[swapLock])
     IN  Done(swapLock, expireSwap(Begin(e, ""), e.s))

onSwapLockupFailed ==
  /\ Running(swapLock, "swap.lockup.failed", "utxo")
  /\ LET e == Head(holder[swapLock])
     IN  Done(swapLock, lockupFailed(Begin(e, ""), e.s))

onSwapLockupZeroconfRejected ==
  /\ Running(swapLock, "swap.lockup.zeroconf.rejected", "utxo")
  /\ LET e == Head(holder[swapLock])
         st0 == Begin(e, "")
         st1 == IF swaps[e.s].invoice = "none" THEN setSwapRate(st0, e.s, e.snapRate) ELSE st0
     IN  Done(swapLock,
              emit(setStatus(st1, e.s, "TransactionZeroConfRejected"),
                   "zeroconf.rejected", e.s, ""))
\* swap.lockup ignoring a swap whose unconfirmed lockup was rejected (used
\* against C14)
onSwapLockup_skipsRejected ==
  /\ Running(swapLock, "swap.lockup", "utxo")
  /\ \E pay \in PayOutcomes, defer \in BOOLEAN, claim \in ClaimOutcomes :
       LET e == Head(holder[swapLock])
           oc == [NoOutcome EXCEPT !.pay = pay, !.defer = defer, !.claim = claim]
           st0 == Begin(e, boolStr(e.confirmed))
           st1 == emit(st0, "transaction", e.s, boolStr(e.confirmed))
           paid == payInvoice(st1, e.s, oc)
       IN  Done(swapLock,
                IF st0.status[e.s] = "TransactionZeroConfRejected"
                THEN st0
                ELSE IF swaps[e.s].invoice # "none"
                THEN IF paid.st.err \/ paid.res = "undefined"
                     THEN paid.st
                     ELSE claimUtxo(paid.st, e.s, oc)
                ELSE setSwapRate(st1, e.s, e.snapRate))

onSwapLockup ==
  /\ Running(swapLock, "swap.lockup", "utxo")
  /\ \E pay \in PayOutcomes, defer \in BOOLEAN, claim \in ClaimOutcomes :
       LET e == Head(holder[swapLock])
           oc == [NoOutcome EXCEPT !.pay = pay, !.defer = defer, !.claim = claim]
           st1 == emit(Begin(e, boolStr(e.confirmed)), "transaction", e.s, boolStr(e.confirmed))
           paid == payInvoice(st1, e.s, oc)
       IN  Done(swapLock,
                IF swaps[e.s].invoice # "none"
                THEN IF paid.st.err \/ paid.res = "undefined"
                     THEN paid.st
                     ELSE claimUtxo(paid.st, e.s, oc)
                ELSE setSwapRate(st1, e.s, e.snapRate))

onReverseSwapExpired ==
  /\ Running(reverseSwapLock, "reverseSwap.expired", "utxo")
  /\ \E refund \in RefundOutcomes :
       LET e == Head(holder[reverseSwapLock])
       IN  Done(reverseSwapLock,
                expireReverseSwap(Begin(e, boolStr(e.snapTx)), e.s, e.snapTx,
                                  [NoOutcome EXCEPT !.refund = refund]))

onServerLockupConfirmed ==
  \E lock \in {reverseSwapLock, chainSwapLock} :
    /\ Running(lock, "server.lockup.confirmed", "utxo")
    /\ LET e == Head(holder[lock])
           st0 == Begin(e, "")
       IN  Done(lock,
                IF st0.status[e.s] \in SuccessSwapUpdateEvents
                THEN st0
                ELSE emit(setStatus(st0, e.s,
                                    IF swaps[e.s].type = "ReverseSubmarine"
                                    THEN "TransactionConfirmed"
                                    ELSE "TransactionServerConfirmed"),
                          "transaction", e.s, "true"))

onMinerfeeInvoicePaid ==
  /\ Running(reverseSwapLock, "minerfee.invoice.paid", "ln")
  /\ LET e == Head(holder[reverseSwapLock])
     IN  Done(reverseSwapLock, emit(Begin(e, ""), "minerfee.paid", e.s, ""))
\* invoice.paid settling the hold invoice right after the lockup (used against
\* C5)
onInvoicePaid_settles ==
  /\ Running(reverseSwapLock, "invoice.paid", "ln")
  /\ \E send \in SendOutcomes, post \in PostOutcomes, cancel \in CancelOutcomes,
        settle \in SettleOutcomes, p \in Preimages, fee \in FeeEstimates :
       LET e == Head(holder[reverseSwapLock])
           oc == [NoOutcome EXCEPT !.send = send, !.post = post, !.cancel = cancel,
                                   !.settle = settle, !.fee = fee]
           st0 == Begin(e, "")
           st1 == IF st0.status[e.s] \notin {"SwapCreated", "MinerFeePaid"}
                  THEN st0
                  ELSE IF isUtxo(swaps[e.s].sendType) THEN lockupUtxo(st0, e.s, oc, TRUE)
                  ELSE IF swaps[e.s].sendType = "Ether" THEN lockupEther(st0, e.s, oc, TRUE)
                  ELSE lockupERC20(st0, e.s, oc, TRUE)
       IN  Done(reverseSwapLock,
                IF st1.err THEN st1 ELSE settleReverseSwapInvoice(st1, e.s, p, oc))

\* invoice.paid locking up without looking at the status of the swap (used
\* against C36)
onInvoicePaid_anyStatus ==
  /\ Running(reverseSwapLock, "invoice.paid", "ln")
  /\ \E send \in SendOutcomes, post \in PostOutcomes, cancel \in CancelOutcomes,
        fee \in FeeEstimates :
       LET e == Head(holder[reverseSwapLock])
           oc == [NoOutcome EXCEPT !.send = send, !.post = post, !.cancel = cancel,
                                   !.fee = fee]
           st0 == Begin(e, "")
       IN  Done(reverseSwapLock,
                IF isUtxo(swaps[e.s].sendType) THEN lockupUtxo(st0, e.s, oc, TRUE)
                ELSE IF swaps[e.s].sendType = "Ether" THEN lockupEther(st0, e.s, oc, TRUE)
                ELSE lockupERC20(st0, e.s, oc, TRUE))
onInvoicePaid ==
  /\ Running(reverseSwapLock, "invoice.paid", "ln")
  /\ \E send \in SendOutcomes, post \in PostOutcomes, cancel \in CancelOutcomes,
        fee \in FeeEstimates :
       LET e == Head(holder[reverseSwapLock])
           oc == [NoOutcome EXCEPT !.send = send, !.post = post, !.cancel = cancel,
                                   !.fee = fee]
           st0 == Begin(e, "")
       IN  Done(reverseSwapLock,
                IF st0.status[e.s] \notin {"SwapCreated", "MinerFeePaid"}
                THEN st0
                ELSE IF isUtxo(swaps[e.s].sendType) THEN lockupUtxo(st0, e.s, oc, TRUE)
                ELSE IF swaps[e.s].sendType = "Ether" THEN lockupEther(st0, e.s, oc, TRUE)
                ELSE lockupERC20(st0, e.s, oc, TRUE))

onReverseSwapClaimed ==
  /\ Running(reverseSwapLock, "reverseSwap.claimed", "utxo")
  /\ \E settle \in SettleOutcomes, cancel \in CancelOutcomes :
       LET e == Head(holder[reverseSwapLock])
       IN  Done(reverseSwapLock,
                settleReverseSwapInvoice(Begin(e, e.preimage), e.s, e.preimage,
                                         [NoOutcome EXCEPT !.settle = settle, !.cancel = cancel]))

\* notFound is one of the errors of a Lightning client that has no such invoice;
\* timeout is the string raceCall rejects with; throw is any other error
LookupOutcomes == {"cancelled", "pendingHtlcs", "open", "notFound", "throw", "timeout"}
ExpiredCancelOutcomes == {"ok", "notFound", "throw"}

\* invoice.expired treating every error of the Lightning client as an invoice
\* that is gone (used against C26)
onInvoiceExpired_anyErrorIsGone ==
  /\ Running(reverseSwapLock, "invoice.expired", "invoice")
  /\ \E lookup \in LookupOutcomes, cancel \in ExpiredCancelOutcomes :
       LET e == Head(holder[reverseSwapLock])
           st0 == Begin(e, "")
           st1 == call(st0, "lookupHoldInvoice", e.s, lookup)
           st2 == [st1 EXCEPT !.log = @ \o << Entry("call", "cancelReverseInvoices", e.s, "true"),
                                               Entry("ret", "cancelReverseInvoices", e.s, cancel) >>]
           expired(st) == emit(setStatus(st, e.s, "InvoiceExpired"), "invoice.expired", e.s, "")
       IN  Done(reverseSwapLock,
                IF st0.status[e.s] # "SwapCreated" THEN st0
                ELSE IF lookup = "pendingHtlcs" THEN st1
                ELSE IF lookup \in {"cancelled", "notFound", "throw", "timeout"} THEN expired(st1)
                ELSE expired(st2))
onInvoiceExpired ==
  /\ Running(reverseSwapLock, "invoice.expired", "invoice")
  /\ \E lookup \in LookupOutcomes, cancel \in ExpiredCancelOutcomes :
       LET e == Head(holder[reverseSwapLock])
           st0 == Begin(e, "")
           st1 == call(st0, "lookupHoldInvoice", e.s, lookup)
           st2 == [st1 EXCEPT !.log = @ \o << Entry("call", "cancelReverseInvoices", e.s, "true"),
                                               Entry("ret", "cancelReverseInvoices", e.s, cancel) >>]
           expired(st) == emit(setStatus(st, e.s, "InvoiceExpired"), "invoice.expired", e.s, "")
       IN  Done(reverseSwapLock,
                IF st0.status[e.s] # "SwapCreated" THEN st0
                ELSE IF lookup \in {"throw", "timeout", "pendingHtlcs"} THEN st1
                ELSE IF lookup \in {"cancelled", "notFound"} THEN expired(st1)
                ELSE IF cancel = "throw" THEN st2
                ELSE expired(st2))

onChainSwapLockupZeroconfRejected ==
  /\ Running(swapLock, "chainSwap.lockup.zeroconf.rejected", "utxo")
  /\ LET e == Head(holder[swapLock])
     IN  Done(swapLock,
              emit(setStatus(Begin(e, ""), e.s, "TransactionZeroConfRejected"),
                   "zeroconf.rejected", e.s, ""))

onChainSwapLockup ==
  /\ Running(chainSwapLock, "chainSwap.lockup", "utxo")
  /\ \E send \in SendOutcomes, post \in PostOutcomes, fee \in FeeEstimates :
       LET e == Head(holder[chainSwapLock])
           oc == [NoOutcome EXCEPT !.send = send, !.post = post, !.fee = fee]
           st0 == Begin(e, boolStr(e.concurrent))
       IN  Done(chainSwapLock,
                IF st0.transactionId[e.s]
                THEN st0
                ELSE handleChainSwapLockup(
                       emit(st0, "transaction", e.s, boolStr(e.confirmed)), e.s, oc))

onChainSwapLockupFailed ==
  /\ Running(chainSwapLock, "chainSwap.lockup.failed", "utxo")
  /\ LET e == Head(holder[chainSwapLock])
     IN  Done(chainSwapLock, lockupFailed(Begin(e, ""), e.s))

onChainSwapClaimed ==
  /\ Running(chainSwapLock, "chainSwap.claimed", "utxo")
  /\ \E defer \in BOOLEAN, claim \in ClaimOutcomes :
       LET e == Head(holder[chainSwapLock])
           st1 == attemptSettleSwap(Begin(e, e.preimage), e.s, swaps[e.s].recvType,
                                    [NoOutcome EXCEPT !.defer = defer, !.claim = claim])
       IN  Done(chainSwapLock,
                IF st1.err THEN st1 ELSE call(st1, "removeFromClaimable", e.s, ""))

onChainSwapExpired ==
  /\ Running(chainSwapLock, "chainSwap.expired", "utxo")
  /\ \E refund \in RefundOutcomes :
       LET e == Head(holder[chainSwapLock])
       IN  Done(chainSwapLock,
                expireChainSwap(Begin(e, ""), e.s, [NoOutcome EXCEPT !.refund = refund]))
\* refund.confirmed letting the failure of the cancel through (used against C18)
onRefundConfirmed_rethrows ==
  /\ Running(reverseSwapLock, "refund.confirmed", "refund")
  /\ \E cancel \in CancelOutcomes :
       LET e == Head(holder[reverseSwapLock])
       IN  Done(reverseSwapLock, cancelReverseInvoices(Begin(e, ""), e.s, TRUE, cancel))

onRefundConfirmed ==
  /\ Running(reverseSwapLock, "refund.confirmed", "refund")
  /\ \E cancel \in CancelOutcomes :
       LET e == Head(holder[reverseSwapLock])
       IN  Done(reverseSwapLock,
                [cancelReverseInvoices(Begin(e, ""), e.s, TRUE, cancel) EXCEPT !.err = FALSE])

\* ------------------------------------------------------------------ handlers of the Ethereum nurseries

onEthSwapExpired ==
  /\ Running(swapLock, "swap.expired", "evm")
  /\ LET e == Head(holder[swapLock])
     IN  Done(swapLock, expireSwap(Begin(e, ""), e.s))

\* lockup.failed of a chain swap runs under the swap lock, next to the handlers
\* of the chainSwap lock: the read of lockupFailed (getChainSwap) is a step of
\* its own, and handlers of chain swaps can run before the write
onEthLockupFailedLoad ==
  /\ Running(swapLock, "lockup.failed", "evm")
  /\ LET e == Head(holder[swapLock])
     IN  /\ swaps[e.s].type = "Chain"
         /\ e.loaded = "none"
         /\ holder' = [holder EXCEPT ![swapLock] =
                         <<[e EXCEPT !.loaded = IF transactionId[e.s] THEN "txid" ELSE "null"]>>
                         \o Tail(@)]
  /\ UNCHANGED <<retryInterval, swaps, status, transactionId, rate, queue, delivered, log>>

onEthLockupFailed ==
  /\ Running(swapLock, "lockup.failed", "evm")
  /\ LET e == Head(holder[swapLock])
     IN  IF swaps[e.s].type = "Chain"
         THEN /\ e.loaded # "none"
              /\ Done(swapLock,
                      lockupFailedOf(Begin(e, ""), e.s, status[e.s], e.loaded = "txid"))
         ELSE Done(swapLock, lockupFailed(Begin(e, ""), e.s))

\* the row of the event is used as it is: no re-read
handleLockup(lock, e, oc) ==
  LET st1 == emit(Begin(e, ""), "transaction", e.s, "true")
  IN  Done(lock,
           IF swaps[e.s].type = "Chain"
           THEN handleChainSwapLockup(st1, e.s, oc)
           ELSE IF swaps[e.s].invoice # "none"
                THEN attemptSettleSwap(st1, e.s, swaps[e.s].recvType, oc)
                ELSE setSwapRate(st1, e.s, e.snapRate))

onEthLockup ==
  \E lock \in {swapLock, chainSwapLock} :
    /\ Running(lock, "eth.lockup", "evm")
    /\ \E send \in SendOutcomes, post \in PostOutcomes, pay \in PayOutcomes,
          defer \in BOOLEAN, claim \in ClaimOutcomes, fee \in FeeEstimates :
         handleLockup(lock, Head(holder[lock]),
                      [NoOutcome EXCEPT !.send = send, !.post = post, !.pay = pay,
                                        !.defer = defer, !.claim = claim, !.fee = fee])

onErc20Lockup ==
  \E lock \in {swapLock, chainSwapLock} :
    /\ Running(lock, "erc20.lockup", "evm")
    /\ \E send \in SendOutcomes, post \in PostOutcomes, pay \in PayOutcomes,
          defer \in BOOLEAN, claim \in ClaimOutcomes, fee \in FeeEstimates :
         handleLockup(lock, Head(holder[lock]),
                      [NoOutcome EXCEPT !.send = send, !.post = post, !.pay = pay,
                                        !.defer = defer, !.claim = claim, !.fee = fee])

onEthReverseSwapExpired ==
  /\ Running(reverseSwapLock, "reverseSwap.expired", "evm")
  /\ \E refund \in RefundOutcomes :
       LET e == Head(holder[reverseSwapLock])
       IN  Done(reverseSwapLock,
                expireReverseSwap(Begin(e, boolStr(e.snapTx)), e.s, e.snapTx,
                                  [NoOutcome EXCEPT !.refund = refund]))

onLockupFailedToSend ==
  \E lock \in {reverseSwapLock, chainSwapLock} :
    /\ Running(lock, "lockup.failedToSend", "evm")
    /\ \E cancel \in CancelOutcomes :
         LET e == Head(holder[lock])
         IN  Done(lock,
                  handleSwapSendFailed(Begin(e, ""), e.s, [NoOutcome EXCEPT !.cancel = cancel],
                                       swaps[e.s].type = "ReverseSubmarine"))

onEthLockupConfirmed ==
  \E lock \in {reverseSwapLock, chainSwapLock} :
    /\ Running(lock, "lockup.confirmed", "evm")
    /\ LET e == Head(holder[lock])
       IN  Done(lock, emit(Begin(e, ""), "transaction", e.s, "true"))

onEthClaim ==
  \E lock \in {reverseSwapLock, chainSwapLock} :
    /\ Running(lock, "claim", "evm")
    /\ \E settle \in SettleOutcomes, cancel \in CancelOutcomes,
          defer \in BOOLEAN, claim \in ClaimOutcomes :
         LET e == Head(holder[lock])
             oc == [NoOutcome EXCEPT !.settle = settle, !.cancel = cancel,
                                     !.defer = defer, !.claim = claim]
         IN  Done(lock,
                  IF swaps[e.s].type = "ReverseSubmarine"
                  THEN settleReverseSwapInvoice(Begin(e, e.preimage), e.s, e.preimage, oc)
                  ELSE attemptSettleSwap(Begin(e, e.preimage), e.s, swaps[e.s].recvType, oc))

onEthChainSwapExpired ==
  /\ Running(chainSwapLock, "chainSwap.expired", "evm")
  /\ \E refund \in RefundOutcomes :
       LET e == Head(holder[chainSwapLock])
       IN  Done(chainSwapLock,
                expireChainSwap(Begin(e, ""), e.s, [NoOutcome EXCEPT !.refund = refund]))

\* ------------------------------------------------------------------ retry timer

\* this.lock.isBusy(retryLock): a retry run is queued or running
retryBusy == pendingFor(swapLock, "retry", "all")

\* a tick of setInterval: skipped while the last run is still there
retryTick ==
  /\ retryInterval # 0
  /\ ~retryBusy
  /\ delivered < MaxEvents
  /\ delivered' = delivered + 1
  /\ acquire(swapLock, Ev("retry", "timer", "all"))
  /\ UNCHANGED <<retryInterval, swaps, status, transactionId, rate, log>>

SetToSeq(S) ==
  CHOOSE q \in [1..Cardinality(S) -> S] : \A x \in S : \E i \in 1..Cardinality(S) : q[i] = x

RECURSIVE retryLoop(_, _, _)
retryLoop(st, pendingInvoiceSwaps, ocs) ==
  IF pendingInvoiceSwaps = <<>> \/ st.err
  THEN st
  ELSE LET s == Head(pendingInvoiceSwaps)
       IN  retryLoop(attemptSettleSwap(st, s, swaps[s].recvType, ocs[s]),
                     Tail(pendingInvoiceSwaps), ocs)

onRetry ==
  /\ Running(swapLock, "retry", "timer")
  /\ LET pending == {s \in SwapIds : /\ swaps[s].type = "Submarine"
                                      /\ status[s] \in {"InvoicePending", "InvoicePaid"}}
     IN  \E pay \in [pending -> PayOutcomes], defer \in [pending -> BOOLEAN],
            claim \in [pending -> ClaimOutcomes] :
           LET st0 == recv(Cur, "retry", "all", "")
               pendingInvoiceSwaps == SetToSeq(pending)
               ocs == [s \in pending |->
                         [NoOutcome EXCEPT !.pay = pay[s], !.defer = defer[s],
                                           !.claim = claim[s]]]
           IN  Done(swapLock, retryLoop(st0, pendingInvoiceSwaps, ocs))

\* ------------------------------------------------------------------ claims of the cooperative claimers

\* claimer.on('claim'): the DeferredClaimer claimed a swap it had accepted
onClaimerClaim ==
  \E s \in SwapIds :
    /\ LogHas("call", "deferClaim", s, "true")
    /\ delivered < MaxEvents
    /\ delivered' = delivered + 1
    /\ LET r == emit(advanceStatus(recv(Cur, "claimer.claim", s, ""), s, "TransactionClaimed"),
                     "claim", s, "")
       IN  /\ status' = r.status
           /\ log' = r.log
    /\ UNCHANGED <<retryInterval, swaps, transactionId, rate, queue, holder>>

\* chainSwapSigner.on('claim'): a chain swap registered for claiming was claimed
onChainSwapSignerClaim ==
  \E s \in SwapIds :
    /\ LogHas("call", "registerForClaim", s, "")
    /\ delivered < MaxEvents
    /\ delivered' = delivered + 1
    /\ LET r == emit(advanceStatus(recv(Cur, "chainSwapSigner.claim", s, ""), s,
                                   "TransactionClaimed"),
                     "claim", s, "")
       IN  /\ status' = r.status
           /\ log' = r.log
    /\ UNCHANGED <<retryInterval, swaps, transactionId, rate, queue, holder>>

\* ------------------------------------------------------------------ specification

Next ==
  \/ UtxoNurseryEmit
  \/ EthereumNurseryEmit
  \/ LightningNurseryEmit
  \/ InvoiceNurseryEmit
  \/ RefundWatcherEmit
  \/ retryTick
  \/ onSwapExpired
  \/ onSwapLockupFailed
  \/ onSwapLockupZeroconfRejected
  \/ onSwapLockup
  \/ onReverseSwapExpired
  \/ onServerLockupConfirmed
  \/ onMinerfeeInvoicePaid
  \/ onInvoicePaid
  \/ onReverseSwapClaimed
  \/ onInvoiceExpired
  \/ onChainSwapLockupZeroconfRejected
  \/ onChainSwapLockup
  \/ onChainSwapLockupFailed
  \/ onChainSwapClaimed
  \/ onChainSwapExpired
  \/ onRefundConfirmed
  \/ onEthSwapExpired
  \/ onEthLockupFailedLoad
  \/ onEthLockupFailed
  \/ onEthLockup
  \/ onErc20Lockup
  \/ onEthReverseSwapExpired
  \/ onLockupFailedToSend
  \/ onEthLockupConfirmed
  \/ onEthClaim
  \/ onEthChainSwapExpired
  \/ onRetry
  \/ onClaimerClaim
  \/ onChainSwapSignerClaim

\* the bodies of the listeners and of the retry run
HandlerStep ==
  \/ onSwapExpired
  \/ onSwapLockupFailed
  \/ onSwapLockupZeroconfRejected
  \/ onSwapLockup
  \/ onReverseSwapExpired
  \/ onServerLockupConfirmed
  \/ onMinerfeeInvoicePaid
  \/ onInvoicePaid
  \/ onReverseSwapClaimed
  \/ onInvoiceExpired
  \/ onChainSwapLockupZeroconfRejected
  \/ onChainSwapLockup
  \/ onChainSwapLockupFailed
  \/ onChainSwapClaimed
  \/ onChainSwapExpired
  \/ onRefundConfirmed
  \/ onEthSwapExpired
  \/ onEthLockupFailedLoad
  \/ onEthLockupFailed
  \/ onEthLockup
  \/ onErc20Lockup
  \/ onEthReverseSwapExpired
  \/ onLockupFailedToSend
  \/ onEthLockupConfirmed
  \/ onEthClaim
  \/ onEthChainSwapExpired
  \/ onRetry
Spec == Init /\ [][Next]_vars

\* A body that holds a key runs to its end: every call it awaits returns or
\* throws. The watchers and the timer are under no obligation.
\* Progress is checked from the scenarios of one swap, a chain swap sending and
\* receiving on chains of the same type.
LiveInit ==
  /\ Init
  /\ swaps["s2"] = NoRow
  /\ swaps["s1"].type = "Chain" => swaps["s1"].sendType = swaps["s1"].recvType
  /\ swaps["s1"].minerFeeInvoice \in {0, 229000}

FairSpec == LiveInit /\ [][Next]_vars /\ WF_vars(HandlerStep)

\* ------------------------------------------------------------------ reading the log

LogIdx == 1..Len(log)

IsEntry(i, k, n, s) == log[i].k = k /\ log[i].n = n /\ log[i].s = s

Count(k, n, s) == Cardinality({i \in LogIdx : IsEntry(i, k, n, s)})

SendCalls == {"sendToAddress", "lockupEther", "lockupToken"}
PostSendCalls == {"addFilters", "listenContractTransaction"}
RefundFunctions == {"refundUtxo", "refundEther", "refundERC20"}
LightningCalls == {"cancelReverseInvoices", "settleHoldInvoice", "lookupHoldInvoice"}

\* a wallet send or contract lockup call of swap s that returned
IsSentAt(i, s) == log[i].k = "call" /\ log[i].n \in SendCalls /\ log[i].s = s /\ log[i].a = "ok"

\* the handler run an entry belongs to: from its "recv" entry to the next one
RunStart(i) ==
  CHOOSE j \in 1..i : log[j].k = "recv" /\ \A m \in (j + 1)..i : log[m].k # "recv"

RunOf(i) ==
  {m \in LogIdx : m > i /\ \A x \in (i + 1)..m : log[x].k # "recv"}

\* ------------------------------------------------------------------ claims

\* C1: for every chain swap and every sequence of user-lockup events
\* (chainSwap.lockup, eth.lockup, erc20.lockup, duplicates included) the nursery
\* emits at most one coins.sent.
C1_AtMostOneCoinsSent ==
  \A s \in SwapIds : swaps[s].type = "Chain" => Count("emit", "coins.sent", s) <= 1

\* C2: of two chainSwap.lockup events delivered concurrently for one chain swap,
\* when the wallet send of the handler that runs first succeeds, the handler that
\* runs second sends no funds and emits neither transaction nor coins.sent, and
\* exactly one coins.sent is emitted.
C2_SecondLockupRefused ==
  \A i1 \in LogIdx, i2 \in LogIdx :
    ( /\ i1 < i2
      /\ log[i1].k = "recv" /\ log[i1].n = "chainSwap.lockup"
      /\ log[i2].k = "recv" /\ log[i2].n = "chainSwap.lockup"
      /\ log[i1].s = log[i2].s
      /\ log[i2].a = "true"
      /\ \A m \in (i1 + 1)..(i2 - 1) : ~(log[m].k = "recv" /\ log[m].n = "chainSwap.lockup")
      /\ \E m \in RunOf(i1) : IsSentAt(m, log[i1].s) )
    => /\ \A m \in RunOf(i2) :
            /\ ~(log[m].k = "call" /\ log[m].n \in SendCalls)
            /\ ~(log[m].k = "emit" /\ log[m].n \in {"transaction", "coins.sent"})
       /\ Cardinality({m \in RunOf(i1) \cup RunOf(i2) :
                         IsEntry(m, "emit", "coins.sent", log[i1].s)}) = 1

\* C3: for every reverse swap and every sequence of invoice.paid events the
\* nursery sends at most one server lockup and emits at most one coins.sent.
C3_AtMostOneReverseLockup ==
  \A s \in SwapIds :
    swaps[s].type = "ReverseSubmarine" =>
      /\ Cardinality({i \in LogIdx : IsSentAt(i, s)}) <= 1
      /\ Count("emit", "coins.sent", s) <= 1

\* C4: a refund (refundUtxo, refundEther, refundERC20) is attempted only while an
\* expired event of that swap is handled and only when the swap's server lockup
\* transaction id is set; every refund event is preceded by a coins.sent of the
\* same swap, whose transaction id was persisted with it.
C4_RefundOnlyOnExpiryAfterLockup ==
  \A i \in LogIdx :
    /\ (log[i].k = "call" /\ log[i].n \in RefundFunctions) =>
         /\ log[RunStart(i)].n \in {"reverseSwap.expired", "chainSwap.expired"}
         /\ log[RunStart(i)].s = log[i].s
         /\ swaps[log[i].s].type \in {"ReverseSubmarine", "Chain"}
         /\ transactionId[log[i].s]
         /\ \E j \in 1..(i - 1) : IsEntry(j, "emit", "coins.sent", log[i].s)
    /\ (log[i].k = "emit" /\ log[i].n = "refund") =>
         /\ transactionId[log[i].s]
         /\ \E j \in 1..(i - 1) : IsEntry(j, "emit", "coins.sent", log[i].s)

\* a refund event was emitted
C4_Witness == \E i \in LogIdx : log[i].k = "emit" /\ log[i].n = "refund"

\* C5: every invoice.settled event and every settleHoldInvoice call of a reverse
\* swap happens while a claimed event of that swap (reverseSwap.claimed, EVM
\* claim) is handled whose preimage hashes to the swap's preimage hash.
C5_SettleOnlyAfterClaimed ==
  \A i \in LogIdx :
    ( \/ (log[i].k = "emit" /\ log[i].n = "invoice.settled")
      \/ (log[i].k = "call" /\ log[i].n = "settleHoldInvoice") )
    => /\ swaps[log[i].s].type = "ReverseSubmarine"
       /\ log[RunStart(i)].n \in {"reverseSwap.claimed", "claim"}
       /\ log[RunStart(i)].s = log[i].s
       /\ sha256(log[RunStart(i)].a) = swaps[log[i].s].preimageHash

\* an invoice.settled event was emitted
C5_Witness == \E i \in LogIdx : log[i].k = "emit" /\ log[i].n = "invoice.settled"

IsSubmarineClaim(i) ==
  log[i].k = "emit" /\ log[i].n = "claim" /\ swaps[log[i].s].type = "Submarine"

PaidBefore(i) ==
  \E j \in 1..(i - 1) : log[j] = Entry("call", "paymentHandler.payInvoice", log[i].s, "paid")

\* C6 as stated: every claim event of a submarine swap is preceded by a
\* transaction event with confirmed = true of that swap and by a payInvoice call
\* that returned a preimage.
C6_ClaimAfterConfirmedTransaction ==
  \A i \in LogIdx :
    IsSubmarineClaim(i) =>
      /\ \E j \in 1..(i - 1) : log[j] = Entry("emit", "transaction", log[i].s, "true")
      /\ PaidBefore(i)

\* C6 amended: every claim event of a submarine swap is preceded by a transaction
\* event of that swap (confirmed or an accepted unconfirmed lockup) and by a
\* payInvoice call that returned a preimage.
C6_ClaimAfterTransactionAndPayment ==
  \A i \in LogIdx :
    IsSubmarineClaim(i) =>
      /\ \E j \in 1..(i - 1) : IsEntry(j, "emit", "transaction", log[i].s)
      /\ PaidBefore(i)

\* a submarine claim was emitted after an unconfirmed lockup only
C6_Witness ==
  \E i \in LogIdx :
    /\ IsSubmarineClaim(i)
    /\ \A j \in 1..(i - 1) : log[j] # Entry("emit", "transaction", log[i].s, "true")

TerminalStatuses ==
  {"TransactionClaimed", "InvoiceSettled", "TransactionRefunded", "SwapExpired",
   "InvoiceExpired", "TransactionFailed", "TransactionLockupFailed"}

\* C7: no step writes a status that moves backwards in the swap's progression or
\* leaves a terminal status.
C7_StatusOnlyAdvances ==
  [][\A s \in SwapIds :
       status'[s] # status[s] =>
         /\ status[s] \notin TerminalStatuses
         /\ Rank(swaps[s].type, status'[s]) >= Rank(swaps[s].type, status[s])]_vars

\* C8: once the server lockup transaction id of a reverse or chain swap is
\* persisted, handling an expired event never emits expiration (nor writes
\* SwapExpired) for it.
C8_NoExpirationAfterServerLockup ==
  \A i \in LogIdx :
    (log[i].k = "emit" /\ log[i].n = "expiration"
       /\ swaps[log[i].s].type \in {"ReverseSubmarine", "Chain"})
    => \A j \in 1..(i - 1) : ~IsEntry(j, "emit", "coins.sent", log[i].s)

\* the entries a step appends to the log
NewIdx == (Len(log) + 1)..Len(log')

\* C9: whenever a server lockup send fails (the wallet send or contract call
\* throws, or lockup.failedToSend is handled), the status becomes
\* TransactionFailed and coins.failedToSend is emitted.
C9_SendFailureMarksFailed ==
  [][\A s \in SwapIds :
       (\E i \in NewIdx :
          /\ log'[i].s = s
          /\ \/ (log'[i].k = "call" /\ log'[i].n \in SendCalls /\ log'[i].a = "throw")
             \/ (log'[i].k = "recv" /\ log'[i].n = "lockup.failedToSend"))
       => /\ status'[s] = "TransactionFailed"
          /\ \E i \in NewIdx : log'[i] = Entry("emit", "coins.failedToSend", s, "")]_vars

\* the handler runs in which a server lockup send failed
SendFailureRuns ==
  {r \in LogIdx :
     /\ log[r].k = "recv"
     /\ \/ log[r].n = "lockup.failedToSend"
        \/ \E m \in RunOf(r) : /\ log[m].k = "call"
                               /\ log[m].n \in SendCalls \cup PostSendCalls
                               /\ log[m].a = "throw"}

CancelFlagsIn(r) ==
  {log[m].a : m \in {x \in RunOf(r) : log[x].k = "call" /\ log[x].n = "cancelReverseInvoices"}}

NoLightningCallIn(r) ==
  \A m \in RunOf(r) : ~(log[m].k = "call" /\ log[m].n \in LightningCalls)

Handles(n, s) ==
  /\ Len(log') > Len(log)
  /\ log'[Len(log) + 1].k = "recv"
  /\ log'[Len(log) + 1].n = n
  /\ log'[Len(log) + 1].s = s

\* the run of the step did nothing but receive its event
NothingDone(s) ==
  /\ Len(log') = Len(log) + 1
  /\ status' = status
  /\ transactionId' = transactionId
  /\ rate' = rate

NewHas(k, n, s) == \E i \in NewIdx : log'[i].k = k /\ log'[i].n = n /\ log'[i].s = s

RefundFailures == {"fetchThrow", "broadcastThrow"}

\* C11: when a refund attempt fails (fetching the lockup transaction, the
\* broadcast or the contract call throws) the status of the swap stays what it
\* was, no refund event is emitted, the failure is pushed to the notifier and
\* the refund is attempted once only.
C11_FailedRefundLeavesSwap ==
  [][\A s \in SwapIds :
       (\E i \in NewIdx : /\ log'[i].k = "call" /\ log'[i].s = s
                          /\ log'[i].n \in RefundFunctions
                          /\ log'[i].a \in RefundFailures)
       => /\ status'[s] = status[s]
          /\ transactionId'[s] = transactionId[s]
          /\ ~NewHas("emit", "refund", s)
          /\ NewHas("call", "notifications.sendMessage", s)
          /\ Cardinality({i \in NewIdx : log'[i].k = "call"
                                         /\ log'[i].n \in RefundFunctions}) = 1]_vars

\* a refund attempt failed and the swap kept the status the lockup gave it
C11_Witness ==
  \E i \in LogIdx :
    /\ log[i].k = "call" /\ log[i].n \in RefundFunctions /\ log[i].a \in RefundFailures
    /\ transactionId[log[i].s]
    /\ status[log[i].s] \in {"TransactionMempool", "TransactionServerMempool"}

ExpiredEvents == {"swap.expired", "reverseSwap.expired", "chainSwap.expired"}

\* the statuses in which an expired event is ignored
AlreadyExpired(s) ==
  IF swaps[s].type = "Submarine" THEN {"SwapExpired"}
  ELSE IF swaps[s].type = "ReverseSubmarine" THEN {"SwapExpired", "TransactionRefunded"}
  ELSE FinalChainSwapEvents

\* C12: an expired event handled for a swap whose persisted status is already
\* SwapExpired (reverse: SwapExpired or TransactionRefunded, chain: any final
\* status) writes no status, attempts no refund and emits no event.
C12_ExpiredIsIdempotent ==
  [][\A s \in SwapIds : \A n \in ExpiredEvents :
       (Handles(n, s) /\ status[s] \in AlreadyExpired(s)) => NothingDone(s)]_vars

\* an expired event was handled for a swap already expired or refunded
C12_Witness ==
  /\ log # <<>>
  /\ LET last == log[Len(log)]
     IN  /\ last.k = "recv" /\ last.n \in ExpiredEvents
         /\ status[last.s] \in {"SwapExpired", "TransactionRefunded"}
         /\ \E j \in LogIdx : log[j].k = "emit" /\ log[j].n \in {"expiration", "refund"}
                              /\ log[j].s = last.s

TerminalEvents ==
  {"swap.lockup.failed", "chainSwap.lockup.failed", "lockup.failed", "lockup.failedToSend",
   "reverseSwap.claimed", "chainSwap.claimed", "claim", "invoice.expired"} \cup ExpiredEvents

\* the handler run starting at i emitted a nursery event
Processed(i) == \E m \in RunOf(i) : log[m].k = "emit"

\* C13: a terminal event delivered again after the nursery processed it is a
\* no-op: the second handler calls nothing and emits nothing.
C13_RedeliveryIsNoOp ==
  \A i \in LogIdx : \A j \in LogIdx :
    ( /\ i < j
      /\ log[i].k = "recv" /\ log[i].n \in TerminalEvents
      /\ log[j].k = "recv" /\ log[j].n = log[i].n /\ log[j].s = log[i].s
      /\ Processed(i) )
    => RunOf(j) = {}

ZeroConfRejections == {"swap.lockup.zeroconf.rejected", "chainSwap.lockup.zeroconf.rejected"}

\* the confirmed user lockup the handler of the lock is about to process
ConfirmedLockupOf(lock, h, s) ==
  /\ holder[lock] # <<>>
  /\ Head(holder[lock]).h = h
  /\ Head(holder[lock]).s = s
  /\ Head(holder[lock]).confirmed
  /\ Handles(h, s)

\* C14: a zero-conf rejection sets the status to TransactionZeroConfRejected and
\* emits zeroconf.rejected and nothing else (no cancel, expiration or failure);
\* a confirmed lockup event handled while the swap is in that status emits
\* transaction(confirmed=true) and goes on to the invoice payment (submarine) or
\* to the server lockup (chain).
C14_ZeroConfRejectionKeepsSwap ==
  [][\A s \in SwapIds :
       /\ (\E n \in ZeroConfRejections : Handles(n, s))
          => /\ status'[s] = "TransactionZeroConfRejected"
             /\ transactionId'[s] = transactionId[s]
             /\ log'[Len(log')] = Entry("emit", "zeroconf.rejected", s, "")
             /\ \A i \in NewIdx :
                  i \notin {Len(log) + 1, Len(log')}
                  => log'[i] = Entry("call", "SwapRepository.setRate", s, "")
       /\ (status[s] = "TransactionZeroConfRejected"
             /\ ConfirmedLockupOf(swapLock, "swap.lockup", s))
          => /\ Len(log') >= Len(log) + 2
             /\ log'[Len(log) + 2] = Entry("emit", "transaction", s, "true")
             /\ swaps[s].invoice # "none" => NewHas("call", "paymentHandler.payInvoice", s)
       /\ (status[s] = "TransactionZeroConfRejected" /\ ~transactionId[s]
             /\ ConfirmedLockupOf(chainSwapLock, "chainSwap.lockup", s))
          => /\ Len(log') >= Len(log) + 2
             /\ log'[Len(log) + 2] = Entry("emit", "transaction", s, "true")
             /\ \E i \in NewIdx : log'[i].k = "call" /\ log'[i].n \in SendCalls
                                  /\ log'[i].s = s]_vars

\* after a zero-conf rejection the confirmed lockup was paid for and claimed
C14_Witness ==
  \E i \in LogIdx : \E j \in LogIdx : \E m \in LogIdx :
    /\ i < j /\ j < m
    /\ log[i].k = "emit" /\ log[i].n = "zeroconf.rejected"
    /\ log[j] = Entry("emit", "transaction", log[i].s, "true")
    /\ log[m] = Entry("emit", "claim", log[i].s, "")

ClaimedEvents == {"reverseSwap.claimed", "claim"}

\* a submarine swap pays the very invoice of reverse swap s
SelfPayment(s) ==
  \E t \in SwapIds :
    /\ swaps[t].type = "Submarine"
    /\ swaps[t].preimageHash = swaps[s].preimageHash
    /\ swaps[t].invoice = swaps[s].invoice
    /\ status[t] \in {"InvoicePending", "InvoicePaid", "TransactionClaimPending",
                      "TransactionClaimed"}

\* C15: settling a reverse swap while a submarine swap with the same preimage
\* hash and the same invoice exists (InvoicePending, InvoicePaid,
\* TransactionClaimPending or TransactionClaimed) cancels the hold invoice and
\* never calls settleHoldInvoice; without such a swap it calls settleHoldInvoice
\* and never cancels.
C15_SelfPaymentCancels ==
  [][\A s \in SwapIds :
       (swaps[s].type = "ReverseSubmarine" /\ \E n \in ClaimedEvents : Handles(n, s))
       => IF SelfPayment(s)
          THEN /\ NewHas("call", "cancelReverseInvoices", s)
               /\ ~NewHas("call", "settleHoldInvoice", s)
          ELSE /\ NewHas("call", "settleHoldInvoice", s)
               /\ ~NewHas("call", "cancelReverseInvoices", s)]_vars

\* a reverse swap paid by a submarine swap was claimed: its hold invoice was
\* cancelled and invoice.settled emitted
C15_Witness ==
  \E i \in LogIdx :
    /\ log[i].k = "recv" /\ log[i].n = "reverseSwap.claimed"
    /\ i + 2 <= Len(log)
    /\ log[i + 1] = Entry("call", "cancelReverseInvoices", log[i].s, "true")
    /\ log[i + 2].k = "emit" /\ log[i + 2].n = "invoice.settled"

ClaimSteps ==
  {"getRawTransaction", "claim.sendRawTransaction", "contractHandler.claimEther",
   "contractHandler.claimToken"}

ClaimBroadcasts == ClaimSteps \ {"getRawTransaction"}

C18_CancelOnRefundConfirmed ==
  [][\A s \in SwapIds :
       /\ (Handles("refund.confirmed", s) /\ swaps[s].type = "ReverseSubmarine")
          => /\ holder[reverseSwapLock] # <<>>
             /\ Head(holder[reverseSwapLock]).h = "refund.confirmed"
             /\ Head(holder[reverseSwapLock]).s = s
             /\ Len(log') = Len(log) + 2
             /\ log'[Len(log) + 2] = Entry("call", "cancelReverseInvoices", s, "true")
             /\ status' = status /\ transactionId' = transactionId
       /\ (Handles("refund.confirmed", s) /\ swaps[s].type # "ReverseSubmarine")
          => /\ NothingDone(s)
             /\ UNCHANGED <<queue, holder>>
       /\ (\E n \in ExpiredEvents : Handles(n, s))
          => \A i \in NewIdx : log'[i].n \notin LightningCalls]_vars

\* the refund of a reverse swap confirmed and its hold invoices were cancelled
C18_Witness ==
  \E i \in LogIdx :
    /\ log[i].k = "recv" /\ log[i].n = "refund.confirmed" /\ log[i].a = ""
    /\ swaps[log[i].s].type = "ReverseSubmarine"
    /\ i < Len(log)
    /\ log[i + 1] = Entry("call", "cancelReverseInvoices", log[i].s, "true")
    /\ status[log[i].s] = "TransactionRefunded"

\* r is x / y rounded to the nearest integer, halves up
IsRounded(r, x, y) == 2 * y * r - y <= 2 * x /\ 2 * x < 2 * y * r + y

\* the fee rate handed to the wallet for the UTXO lockup logged at i
RateOfSend(i) == log[i - 1].a

\* C17: the fee rate of the UTXO lockup of a reverse swap with a prepay miner
\* fee invoice of A msat is msatToSat(A) / reverseLockupSize rounded to the
\* nearest integer, computed from the decoded invoice without a call of
\* estimateFee; the lockup of a reverse swap without that invoice and of every
\* chain swap uses what estimateFee answers for the target of 2 blocks.
C17_FeeRateOfLockup ==
  \A i \in LogIdx :
    (log[i].k = "call" /\ log[i].n = "sendToAddress")
    => LET s == log[i].s
           A == swaps[s].minerFeeInvoice
       IN  /\ i > 2
           /\ log[i - 1].k = "call" /\ log[i - 1].n = "wallet.feePerVbyte" /\ log[i - 1].s = s
           /\ IF swaps[s].type = "ReverseSubmarine" /\ A # 0
              THEN /\ log[i - 2] = Entry("call", "sidecar.decodeInvoiceOrOffer", s, ToString(A))
                   /\ \E r \in 0..msatToSat(A) :
                        /\ IsRounded(r, msatToSat(A), reverseLockupSize)
                        /\ RateOfSend(i) = ToString(r)
                   /\ \A j \in 1..i :
                        log[j].n = "chainClient.estimateFee"
                        => \E x \in (j + 1)..i : log[x].k = "recv"
              ELSE /\ log[i - 2] = Entry("call", "chainClient.estimateFee", s, "2")
                   /\ \E f \in FeeEstimates : RateOfSend(i) = ToString(f)

\* reverse swaps with a prepay miner fee invoice were locked up at a rate rounded
\* down (229 sat) and at a rate rounded up (230 sat)
C17_Witness ==
  \E i \in LogIdx :
    /\ log[i].k = "call" /\ log[i].n = "sendToAddress" /\ log[i].a = "ok"
    /\ i > 1
    /\ \/ swaps[log[i].s].minerFeeInvoice = 229500 /\ RateOfSend(i) = "2"
       \/ swaps[log[i].s].minerFeeInvoice = 229000 /\ RateOfSend(i) = "1"

\* the lock named after the kind of swap s
LockOfKind(s) ==
  IF swaps[s].type = "Submarine" THEN swapLock
  ELSE IF swaps[s].type = "ReverseSubmarine" THEN reverseSwapLock
  ELSE chainSwapLock

\* the handlers that asked for the lock and have not finished
Asked(lock) == holder[lock] \o queue[lock]

\* C19: every handler of an event of a swap runs, and waits, under the lock named
\* after the kind of that swap: swap for submarine swaps, reverseSwap for reverse
\* swaps, chainSwap for chain swaps; the zero-conf rejection of a chain swap and
\* the EVM lockup.failed of a chain swap are no exception.
C19_LockNamedAfterKind ==
  \A lock \in Locks : \A i \in 1..Len(Asked(lock)) :
    Asked(lock)[i].s \in SwapIds => lock = LockOfKind(Asked(lock)[i].s)

\* the handler bodies in progress: the body of a holder started when it got the
\* lock and reaches its end when it releases it
InProgress == {l \in Locks : holder[l] # <<>> /\ Head(holder[l]).s \in SwapIds}

\* one body at a time under each named lock
SerialPerLock == \A l \in Locks : Len(holder[l]) <= 1

\* the lock goes to the waiting handlers in the order they asked for it
FifoPerLock ==
  [][\A l \in Locks :
       (holder'[l] # holder[l] /\ holder'[l] # <<>>)
       => IF queue[l] # <<>>
          THEN holder'[l] = <<Head(queue[l])>> /\ queue'[l] = Tail(queue[l])
          ELSE holder[l] = <<>> /\ queue'[l] = <<>>]_vars

\* C20: handlers run one at a time under a named lock, in the order they asked
\* for it, so that two handlers of swaps of the same kind are never in progress
\* together and none sees the row of a swap half-way through another.
C20_OneHandlerPerKind ==
  /\ SerialPerLock
  /\ \A l1 \in InProgress : \A l2 \in InProgress :
       l1 # l2 => swaps[Head(holder[l1]).s].type # swaps[Head(holder[l2]).s].type

\* the step ends a handler body with a throw
Threw == Len(log') > Len(log) /\ log'[Len(log')].k = "reject"

\* the key of the body that threw goes to the oldest waiting request, or is free
ReleasedBy(lock) ==
  /\ holder[lock] # <<>>
  /\ log'[Len(log')].n = Head(holder[lock]).h
  /\ log'[Len(log')].s = Head(holder[lock]).s
  /\ IF queue[lock] = <<>>
     THEN holder'[lock] = <<>> /\ queue'[lock] = <<>>
     ELSE holder'[lock] = <<Head(queue[lock])>> /\ queue'[lock] = Tail(queue[lock])

\* C21: a handler body that throws under a lock (a failed claim broadcast in
\* the swap.lockup handler, a failed cancel in handleSwapSendFailed) releases
\* the lock, and every handler that waits for a lock ends up running: again and
\* again no lock has a request left, running or waiting.
C21_LockReleasedAfterThrow ==
  /\ [][Threw => \E lock \in Locks : ReleasedBy(lock)]_vars
  /\ []<>(\A lock \in Locks : Asked(lock) = <<>>)

\* the swap.lockup handler threw and the next handler of the lock swap ran
C21_Witness ==
  \E i \in LogIdx :
    /\ log[i].k = "reject" /\ log[i].n = "swap.lockup"
    /\ i < Len(log)
    /\ log[i + 1].k = "recv"
    /\ log[i + 1].n \in {"swap.lockup", "swap.expired", "swap.lockup.failed", "retry"}

\* C22: an error thrown in a handler under a category lock is caught at the
\* boundary of the handler and never leaves the listener as a rejected promise.
C22_ErrorsCaughtAtBoundary ==
  \A i \in LogIdx : log[i].k # "reject"

\* the retry runs that asked for the lock swap and have not finished
RetryRuns == {i \in 1..Len(Asked(swapLock)) : Asked(swapLock)[i].h = "retry"}

\* the submarine swaps a retry run selects
PendingInvoiceSwaps ==
  {s \in SwapIds : /\ swaps[s].type = "Submarine"
                    /\ status[s] \in {"InvoicePending", "InvoicePaid"}}

\* the step is a tick of the retry timer that starts a run
StartsRetry == Cardinality(RetryRuns') > Cardinality(RetryRuns)

\* Retry runs do not overlap, a run is started by a tick only when the interval
\* is not 0 and no run is left, a run holds the lock swap and attempts no swap
\* that is not selected.
RetryRunsSerial ==
  [][/\ Cardinality(RetryRuns') <= 1
     /\ StartsRetry => (retryInterval # 0 /\ RetryRuns = {})
     /\ Handles("retry", "all")
        => /\ holder[swapLock] # <<>>
           /\ Head(holder[swapLock]).h = "retry"
           /\ \A s \in SwapIds :
                NewHas("call", "paymentHandler.payInvoice", s) => s \in PendingInvoiceSwaps]_vars

\* C23: retry runs never overlap (a tick during a run does nothing, and there
\* is no run with a retry interval of 0); a run executes under the lock swap and
\* calls attemptSettleSwap for exactly the submarine swaps that are in
\* InvoicePending or InvoicePaid when it selects them.
C23_RetryAttemptsEveryPendingSwap ==
  [][/\ Cardinality(RetryRuns') <= 1
     /\ StartsRetry => (retryInterval # 0 /\ RetryRuns = {})
     /\ Handles("retry", "all")
        => /\ holder[swapLock] # <<>>
           /\ Head(holder[swapLock]).h = "retry"
           /\ \A s \in SwapIds :
                NewHas("call", "paymentHandler.payInvoice", s) <=> s \in PendingInvoiceSwaps]_vars

\* the step made the Lightning call n for swap s and the call timed out
TimedOut(n, s) == NewHas("call", n, s) /\ \E i \in NewIdx : log'[i] = Entry("call", n, s, "timeout")

\* C24: when settleHoldInvoice times out in settleReverseSwapInvoice, or
\* lookupHoldInvoice in the invoice.expired handler, the error ends the work of
\* the handler and no swap state changes: no status is written (neither
\* InvoiceSettled nor InvoiceExpired) and neither invoice.settled nor
\* invoice.expired is emitted; the failed settlement is pushed to the notifier.
C24_TimeoutChangesNothing ==
  [][\A s \in SwapIds :
       /\ TimedOut("settleHoldInvoice", s)
          => /\ status' = status /\ transactionId' = transactionId
             /\ ~NewHas("emit", "invoice.settled", s)
             /\ log'[Len(log')] = Entry("call", "notifications.sendMessage", s, "settle failed")
       /\ TimedOut("lookupHoldInvoice", s)
          => /\ status' = status /\ transactionId' = transactionId
             /\ ~NewHas("emit", "invoice.expired", s)
             /\ ~NewHas("call", "cancelReverseInvoices", s)
             /\ log'[Len(log')] = Entry("call", "lookupHoldInvoice", s, "timeout")]_vars

\* the settlement of a claimed reverse swap timed out, and so did the lookup of
\* an expired invoice
C24_Witness ==
  \/ \E i \in LogIdx :
       /\ log[i].k = "call" /\ log[i].n = "settleHoldInvoice" /\ log[i].a = "timeout"
       /\ status[log[i].s] \in {"TransactionMempool", "TransactionConfirmed"}
  \/ \E i \in LogIdx :
       /\ log[i].k = "call" /\ log[i].n = "lookupHoldInvoice" /\ log[i].a = "timeout"
       /\ status[log[i].s] = "SwapCreated"

\* the settlement of reverse swap s timed out at i and has not succeeded before j
SettlementOutstanding(s, i, j) ==
  /\ i < j
  /\ log[i] = Entry("call", "settleHoldInvoice", s, "timeout")
  /\ \A m \in i..j : log[m] # Entry("call", "settleHoldInvoice", s, "ok")

\* C25: after the settlement of a reverse swap failed on a timeout of the
\* Lightning client, the retry timer drives it again: a retry run that starts
\* while the settlement is outstanding calls settleHoldInvoice for that swap,
\* without a second reverseSwap.claimed or claim event from the watcher.
C25_RetryRedrivesSettlement ==
  \A s \in SwapIds : \A i \in LogIdx : \A j \in LogIdx :
    (SettlementOutstanding(s, i, j) /\ log[j].k = "recv" /\ log[j].n = "retry")
    => \E m \in RunOf(j) : log[m].k = "call" /\ log[m].n = "settleHoldInvoice" /\ log[m].s = s

\* what the step got from the Lightning call n for swap s ("none": not called)
Answer(k, n, s) ==
  IF \E i \in NewIdx : log'[i].k = k /\ log'[i].n = n /\ log'[i].s = s
  THEN log'[CHOOSE i \in NewIdx : log'[i].k = k /\ log'[i].n = n /\ log'[i].s = s].a
  ELSE "none"

\* the hold invoice of s is gone or was cancelled by this run
InvoiceGone(s) ==
  LET lookup == Answer("call", "lookupHoldInvoice", s)
      cancel == Answer("ret", "cancelReverseInvoices", s)
  IN  \/ lookup \in {"cancelled", "notFound"}
      \/ lookup = "open" /\ cancel \in {"ok", "notFound"}

\* C26: the invoice.expired handler writes InvoiceExpired and emits
\* invoice.expired exactly when the reverse swap it reads again is in
\* SwapCreated and the hold invoice is cancelled already, or has no pending HTLC
\* and was cancelled, or the lookup or the cancel failed because the invoice is
\* not found; with a pending HTLC, another error (a timeout too) or another
\* status it writes nothing and emits nothing.
C26_InvoiceExpiredExactly ==
  [][\A s \in SwapIds :
       Handles("invoice.expired", s)
       => IF status[s] = "SwapCreated" /\ InvoiceGone(s)
          THEN /\ status'[s] = "InvoiceExpired"
               /\ log'[Len(log')] = Entry("emit", "invoice.expired", s, "")
          ELSE /\ status' = status
               /\ \A i \in NewIdx : log'[i].k # "emit"
               /\ status[s] # "SwapCreated" => NothingDone(s)]_vars

\* an expired invoice was not found by the Lightning client and the swap is in
\* InvoiceExpired; or it had a pending HTLC and the swap stayed in SwapCreated
C26_Witness ==
  \E i \in LogIdx :
    /\ log[i].n \in {"lookupHoldInvoice", "cancelReverseInvoices"}
    /\ \/ log[i].a = "notFound" /\ status[log[i].s] = "InvoiceExpired"
       \/ log[i].a = "pendingHtlcs" /\ status[log[i].s] = "SwapCreated"

\* the step did something towards the claim of s
ClaimTouched(s) ==
  \E i \in NewIdx :
    /\ log'[i].s = s
    /\ \/ log'[i].k = "call" /\ log'[i].n \in ClaimSteps \cup {"deferClaim"}
       \/ log'[i].k = "emit" /\ log'[i].n \in {"claim", "claim.pending"}

\* C27: when the payment of a submarine swap returns no preimage, the run stops
\* there: the claim is not offered to the claimer, nothing is broadcast, and
\* neither claim nor claim.pending is emitted. The settlement of a chain swap
\* never pays an invoice; it goes to the claim with the preimage it was given.
C27_NoPreimageNoClaim ==
  [][\A s \in SwapIds :
       /\ (\E i \in NewIdx : /\ log'[i].k = "call"
                              /\ log'[i].n = "paymentHandler.payInvoice"
                              /\ log'[i].s = s
                              /\ log'[i].a # "paid")
          => ~ClaimTouched(s)
       /\ swaps[s].type = "Chain"
          => /\ ~NewHas("call", "paymentHandler.payInvoice", s)
             /\ Handles("chainSwap.claimed", s) => NewHas("call", "deferClaim", s)]_vars

\* a payment of a submarine swap is in flight after its lockup was seen, and
\* nothing of the swap was claimed
C27_Witness ==
  \E i \in LogIdx :
    /\ log[i] = Entry("call", "paymentHandler.payInvoice", log[i].s, "pending")
    /\ i > 2 /\ log[i - 2].k = "recv" /\ log[i - 2].n = "swap.lockup"
    /\ status[log[i].s] = "InvoicePending"
    /\ \E t \in SwapIds : swaps[t] = NoRow
    /\ \A j \in LogIdx : log[j].s = log[i].s => log[j].n \notin ClaimSteps \cup {"deferClaim"}

\* the entries of the log that runs of the swap.lockup handler wrote for s
LockupRunEntries(s, k, n) ==
  {i \in LogIdx : /\ log[i] = Entry(k, n, s, log[i].a)
                  /\ log[RunStart(i)].n = "swap.lockup"
                  /\ log[RunStart(i)].s = s}

\* C28: however often swap.lockup is delivered for a submarine swap, its
\* handler broadcasts at most one claim transaction and emits at most one claim
\* event for the swap.
C28_DuplicateLockupClaimsOnce ==
  \A s \in SwapIds :
    swaps[s].type = "Submarine"
    => /\ Cardinality({i \in LockupRunEntries(s, "call", "claim.sendRawTransaction")
                         : log[i].a = "ok"}) <= 1
       /\ Cardinality(LockupRunEntries(s, "emit", "claim")) <= 1

UserLockupEvents ==
  {"swap.lockup", "eth.lockup", "erc20.lockup", "swap.lockup.zeroconf.rejected"}

\* C29: a user lockup or a rejection of an unconfirmed lockup of a submarine
\* swap without invoice leaves the swap with a rate, pays no invoice and claims
\* nothing; and when the swap has a rate already, the run does not write the
\* rate again.
C29_RateSetOnceWithoutInvoice ==
  [][\A s \in SwapIds : \A n \in UserLockupEvents :
       (Handles(n, s) /\ swaps[s].type = "Submarine" /\ swaps[s].invoice = "none")
       => /\ rate'[s]
          /\ ~NewHas("call", "paymentHandler.payInvoice", s)
          /\ ~ClaimTouched(s)
          /\ rate[s] => ~NewHas("call", "SwapRepository.setRate", s)]_vars

\* the entry of the step's run that is call n for swap s, 0 when there is none
NewAt(n, s) ==
  IF NewHas("call", n, s)
  THEN CHOOSE i \in NewIdx : log'[i].k = "call" /\ log'[i].n = n /\ log'[i].s = s
  ELSE 0

\* C30: a run that broadcasts the refund transaction of a swap on a UTXO chain
\* has built it with the swap's timeout block height as locktime and has
\* recorded the refund row with vin 0 before the broadcast; the refund event is
\* emitted, with the swap in TransactionRefunded, only by a run whose broadcast
\* succeeded, and after it.
C30_RefundRowBeforeBroadcast ==
  [][\A s \in SwapIds :
       LET built == NewAt("constructRefundTransaction", s)
           row == NewAt("RefundTransactionRepository.addTransaction", s)
           sent == NewAt("refund.sendRawTransaction", s)
           emits == {i \in NewIdx : log'[i] = Entry("emit", "refund", s, "")}
       IN  (swaps[s].type # "Submarine" /\ isUtxo(swaps[s].sendType))
           => /\ sent # 0
                 => /\ 0 < built /\ built < row /\ row < sent
                    /\ log'[built].a = ToString(timeoutBlockHeight(s, "sending"))
                    /\ log'[row].a = "0"
              /\ emits # {}
                 => /\ sent # 0 /\ log'[sent].a = "ok"
                    /\ \A i \in emits : sent < i
                    /\ status'[s] = "TransactionRefunded"]_vars

\* a refund of a chain swap on a UTXO chain was broadcast and then reported
C30_Witness ==
  \E i, j \in LogIdx :
    /\ log[i].k = "call" /\ log[i].n = "refund.sendRawTransaction"
    /\ swaps[log[i].s].type = "Chain"
    /\ log[i].a = "ok"
    /\ j > i /\ log[j] = Entry("emit", "refund", log[i].s, "")
    /\ status[log[i].s] = "TransactionRefunded"

\* the entries of the run of entry i that come before i
Earlier(i) == {j \in LogIdx : RunStart(i) < j /\ j < i}

\* C31: when coins.sent is emitted for a server lockup on a UTXO chain, the same
\* run has sent the coins, then installed the input and output filters on the
\* chain client, then persisted the server lockup transaction, in this order,
\* and the swap holds the transaction id.
C31_FiltersAndRowBeforeCoinsSent ==
  \A i \in LogIdx :
    (log[i].k = "emit" /\ log[i].n = "coins.sent" /\ isUtxo(swaps[log[i].s].sendType))
    => /\ transactionId[log[i].s]
       /\ \E a, b, c \in Earlier(i) :
            /\ a < b /\ b < c
            /\ log[a] = Entry("call", "sendToAddress", log[i].s, "ok")
            /\ log[b] = Entry("call", "addFilters", log[i].s, "ok")
            /\ log[c] = Entry("call", "setServerLockupTransaction", log[i].s, "")

\* coins.sent was emitted for the server lockup of a chain swap on a UTXO chain
C31_Witness ==
  \E i \in LogIdx :
    /\ log[i] = Entry("emit", "coins.sent", log[i].s, "")
    /\ swaps[log[i].s].type = "Chain"
    /\ isUtxo(swaps[log[i].s].sendType)
    /\ status[log[i].s] = "TransactionServerMempool"

\* C32: when the wallet send or the contract lockup call of a reverse or chain
\* swap succeeded, the swap holds the lockup transaction id, and the run that
\* sent does not mark the swap failed with coins.failedToSend, whatever happens
\* in the steps after the send.
C32_SentLockupIsPersisted ==
  \A i \in LogIdx :
    (log[i].k = "call" /\ log[i].n \in SendCalls /\ log[i].a = "ok")
    => /\ transactionId[log[i].s]
       /\ \A j \in RunOf(i) : log[j] # Entry("emit", "coins.failedToSend", log[i].s, "")

TerminalFailures ==
  {"SwapExpired", "TransactionFailed", "TransactionLockupFailed", "TransactionRefunded"}

\* C33: no step emits coins.sent for a chain swap whose persisted status is a
\* terminal failure when the step begins.
C33_NoLockupAfterFailure ==
  [][\A s \in SwapIds :
       (swaps[s].type = "Chain" /\ status[s] \in TerminalFailures)
       => ~NewHas("emit", "coins.sent", s)]_vars

\* C34: no step marks a chain swap TransactionLockupFailed or emits
\* lockup.failed for it while the swap holds a server lockup transaction id, and
\* no step marks a submarine swap in InvoicePending TransactionLockupFailed.
C34_NoLockupFailedAfterServerLockup ==
  [][\A s \in SwapIds :
       LET marked == /\ status'[s] = "TransactionLockupFailed"
                     /\ status[s] # "TransactionLockupFailed"
       IN  /\ (swaps[s].type = "Chain" /\ transactionId[s])
              => ~marked /\ ~NewHas("emit", "lockup.failed", s)
           /\ (swaps[s].type = "Submarine" /\ status[s] = "InvoicePending")
              => ~marked]_vars

\* C35: a chain swap is registered for cooperative claiming only by a run whose
\* server lockup on a UTXO chain was sent and persisted: the run that registers
\* has emitted coins.sent for the swap and has not emitted coins.failedToSend,
\* and the swap holds the lockup transaction id.
C35_RegisteredOnlyAfterLockup ==
  \A i \in LogIdx :
    (log[i].k = "call" /\ log[i].n = "registerForClaim")
    => /\ \E j \in Earlier(i) : log[j] = Entry("emit", "coins.sent", log[i].s, "")
       /\ \A j \in Earlier(i) : log[j] # Entry("emit", "coins.failedToSend", log[i].s, "")
       /\ transactionId[log[i].s]

\* C36: for a reverse swap, invoice.paid handled after the invoice expired does
\* nothing, invoice.expired handled after coins.sent does nothing, and no
\* reverse swap ever has both coins.sent and invoice.expired emitted for it.
C36_PaidAndExpiredExclude ==
  [][\A s \in SwapIds :
       swaps[s].type = "ReverseSubmarine"
       => /\ (Handles("invoice.paid", s) /\ status[s] = "InvoiceExpired") => NothingDone(s)
          /\ (Handles("invoice.expired", s) /\ LogHas("emit", "coins.sent", s, ""))
             => NothingDone(s)
          /\ ~(/\ (\E i \in 1..Len(log') : log'[i] = Entry("emit", "coins.sent", s, ""))
                /\ \/ (\E j \in 1..Len(log') :
                         log'[j] = Entry("emit", "invoice.expired", s, ""))
                   \/ status'[s] = "InvoiceExpired")]_vars

\* invoice.paid was handled for a reverse swap whose invoice had expired, and
\* the swap is still in InvoiceExpired
C36_Witness ==
  \E i, j \in LogIdx :
    /\ i < j
    /\ log[i] = Entry("emit", "invoice.expired", log[i].s, "")
    /\ log[j] = Entry("recv", "invoice.paid", log[i].s, "")
    /\ status[log[i].s] = "InvoiceExpired"

\* C37: the expiry of a swap that succeeded does nothing: reverseSwap.expired
\* handled while the reverse swap is in InvoiceSettled, and chainSwap.expired
\* handled while the chain swap is in TransactionClaimed, make no call, write no
\* status and emit nothing.
C37_NoRefundAfterSuccess ==
  [][\A s \in SwapIds :
       /\ (Handles("reverseSwap.expired", s) /\ status[s] = "InvoiceSettled")
          => NothingDone(s)
       /\ (Handles("chainSwap.expired", s) /\ status[s] = "TransactionClaimed")
          => NothingDone(s)]_vars

RefundUtxoSteps == {"refundUtxo", "constructRefundTransaction", "refund.sendRawTransaction"}

\* C38: in a run of chainSwap.expired, every step of the refund on a UTXO chain
\* (fetching the lockup, constructing the refund transaction, broadcasting it)
\* comes after the removal of the swap from the claimable set of the
\* ChainSwapSigner in the same run.
C38_RemovedBeforeRefund ==
  \A i \in LogIdx :
    (/\ log[i].k = "call" /\ log[i].n \in RefundUtxoSteps
     /\ swaps[log[i].s].type = "Chain"
     /\ log[RunStart(i)].n = "chainSwap.expired")
    => \E j \in Earlier(i) : log[j] = Entry("call", "removeFromClaimable", log[i].s, "")

\* the refund of an expired chain swap was broadcast on a UTXO chain
C38_Witness ==
  \E i \in LogIdx :
    /\ log[i] = Entry("call", "refund.sendRawTransaction", log[i].s, "ok")
    /\ swaps[log[i].s].type = "Chain"
    /\ log[RunStart(i)].n = "chainSwap.expired"

\* C39: a step that runs the body of a handler asks for no lock: the requests of
\* every lock stay as they are or lose their oldest one; and under fair
\* scheduling of the handlers the locks are free again and again, so every
\* request that was queued has been served.
C39_NoDeadlock ==
  /\ [][Len(log') > Len(log)
        => \A lock \in Locks :
             \/ Asked(lock)' = Asked(lock)
             \/ Asked(lock) # <<>> /\ Asked(lock)' = Tail(Asked(lock))]_vars
  /\ []<>(\A lock \in Locks : holder[lock] = <<>> /\ queue[lock] = <<>>)

\* a retry run waits for the swap lock behind the handler that holds it
C39_Witness ==
  /\ holder[swapLock] # <<>>
  /\ Head(holder[swapLock]).h # "retry"
  /\ \E i \in 1..Len(queue[swapLock]) : queue[swapLock][i].h = "retry"

\* C40: a retry run in which the payment or the claim of one selected swap
\* throws still calls attemptSettleSwap for every swap it selected, and when it
\* ends no retry run is left queued or running, so the next tick starts a run.
C40_RetryFailureIsolated ==
  [][(/\ Handles("retry", "all")
      /\ \E i \in NewIdx : log'[i].k = "call" /\ log'[i].a = "throw")
     => /\ \A s \in PendingInvoiceSwaps : NewHas("call", "paymentHandler.payInvoice", s)
        /\ RetryRuns' = {}]_vars

====
